---- MODULE Spec2Model ----
(***************************************************************************)
(* A model of the adaptive network/data layer of BusTrackerr:              *)
(*   src/lib/network-optimizer.ts  (DataCache, retryWithBackoff,           *)
(*                                  BatchUpdateManager, OfflineManager,    *)
(*                                  SmartPrefetcher)                       *)
(*   src/components/user-tracker.tsx (UserTracker: subscribe,              *)
(*                                  fetchBusDataOptimized, effects)        *)
(* Every class is modelled by the state of one instance and one action per *)
(* method or callback; every suspension point (await) splits a method into *)
(* the steps between which other callbacks of the event loop may run.      *)
(* One specification per component keeps the state spaces apart:           *)
(*   SpecCache    DataCache.set / get / clear and the clock                 *)
(*   SpecOffline  OfflineManager: queueUpdate, online/offline, the replay   *)
(*   SpecRetry    one retryWithBackoff call                                 *)
(*   SpecBatch    BatchUpdateManager: addUpdate, the timer, flush, the send *)
(*   SpecTracker  one mounted UserTracker with the global cache, batch and  *)
(*                offline managers and prefetcher it uses (SpecTrackerLong: *)
(*                the same with one event more)                             *)
(***************************************************************************)
EXTENDS Integers, Sequences, FiniteSets, Bags, TLC

VARIABLES
    now,            \* Date.now(), in milliseconds
    \* ---- DataCache (one instance)
    cache,          \* DataCache.cache: the Map, as the sequence of its entries in insertion order
    maxSize,        \* DataCache.maxSize
    distinctRun,    \* history: TRUE while, since the cache was last empty by construction or clear(),
                    \*          only distinct keys were set and no get() found an entry expired
    setLog,         \* history: while distinctRun, the keys set since then, in order (else empty)
    cacheEv,        \* history: the last DataCache call, with what it saw and returned
    \* ---- OfflineManager (one instance)
    isOnline,       \* OfflineManager.isOnline
    offlineQueue,   \* OfflineManager.offlineQueue
    maxQueueSize,   \* OfflineManager.maxQueueSize
    replays,        \* the processOfflineQueue() calls suspended at `await this.processQueuedUpdate(item)`:
                    \*   [queue |-> the call's local snapshot, pos |-> the index of the item awaited]
    nextId,         \* history: the number of entries enqueued so far (entry n carries id n)
    replayed,       \* history: per entry id, how often processQueuedUpdate completed without error (capped at 2)
    offEv,          \* history: the last OfflineManager call or callback, with what it saw
    \* ---- retryWithBackoff (one call)
    retry,          \* the call's frame: [maxRetries, attempt, lastError, pc, settled]
                    \*   pc: "call" awaiting fn(), "delay" awaiting the backoff timer, "resolved", "rejected"
    fnLog,          \* history: how each call of fn ended so far, in order (a value or an error)
    \* ---- BatchUpdateManager (one instance)
    pendingUpdates, \* BatchUpdateManager.pendingUpdates: the Map, entries [key, data] in insertion order
    batchTimeout,   \* BatchUpdateManager.batchTimeout: a timer handle (> 0), or 0 for null
    bTimers,        \* the handles of the setTimeout timers that are armed (set, neither fired nor cleared)
    bDue,           \* per armed handle, the time from which its callback may run (set time + batchDelay)
    nextTimer,      \* the number of handles setTimeout has returned
    sends,          \* the processBatch() calls suspended at `await this.sendBatchUpdate(updates)`: their `updates`
    added,          \* history: the key of each addUpdate call so far, in order (in SpecBatch call n
                    \*          passes the number n as data)
    delivered,      \* history: the payloads handed to the sink in a send that succeeded
    sinkFailures,   \* history: the number of sends that failed
    lastAddAt,      \* history: the time of the last addUpdate call
    sentUpTo,       \* history: the number of addUpdate calls made when the last send started
    batchEv,        \* history: the last BatchUpdateManager call or callback, with what it saw and did
    \* ---- SmartPrefetcher (one instance)
    prefetchCache,  \* SmartPrefetcher.prefetchCache: a DataCache(50), as `cache` above
    accessPatterns, \* SmartPrefetcher.accessPatterns: the Map, entries [key, count] in insertion order
    prefetches,     \* the prefetchLikelyResources() calls suspended at `await loadFn(resource)`,
                    \*   a bag of [keys |-> the resources from the awaited one on]
    \* ---- UserTracker (one component instance)
    quality,        \* networkInfo.quality of the last render
    busId,          \* useState busId ("" for null)
    bus,            \* useState bus
    subscribed,     \* useState subscribed
    connectionStatus, \* useState connectionStatus
    lastDataUpdate, \* useState lastDataUpdate
    updateIntervalRef, \* updateIntervalRef.current: the timer whose handle it holds, or Null
    timers,         \* the setInterval timers that are armed, a bag of [busId, q |-> the quality of
                    \*   the render whose fetchBusDataOptimized and updateInterval the timer was armed
                    \*   with] (timers armed alike are told apart by their handles only)
    fetches,        \* the fetchBusDataOptimized() calls suspended in retryWithBackoff, a bag of
                    \*   [busId, q, frame |-> the retryWithBackoff frame, src |-> "start" or "timer",
                    \*    since |-> the backend's version and session |-> the session when the fetch began]
    starts,         \* the subscribe() calls suspended at the pnrIndex read, a bag of [q]
    mounted,        \* FALSE once the component is unmounted (React then drops its state updates)
    version,        \* the backend: updatedAt of the bus records it holds
    session,        \* history: the number of subscribe() calls so far (presses of Track)
    shownIn,        \* history: the session whose fetch set the bus data displayed
    budget,         \* the number of user, timer, network, clock and backend events the run may still take
    trkEv,          \* history: the last handler of the tracker that ran, with what it saw
    \* ---- navigator.connection, getNetworkInfo and createNetworkMonitor
    connection,     \* navigator.connection as the browser reports it: [effectiveType, downlink in
                    \*   kbit/s, rtt in ms], or Null where the browser has no such property
    netListeners,   \* the "change" listeners registered on navigator.connection: the handleChange of
                    \*   monitor n (the n-th createNetworkMonitor call) stands as n
    monitors,       \* history: per createNetworkMonitor call, [calls |-> how often its callback ran,
                    \*   last |-> the NetworkInfo of the last call, changes |-> the "change" events
                    \*   since it was made and before its cleanup first ran, unsubs |-> how often
                    \*   its cleanup ran]
    netChanges,     \* history: the number of "change" events so far
    netEv,          \* history: the last call of this part, with what it saw and returned
    \* ---- compressBusData / decompressBusData, compressAdminData / decompressAdminData
    codecIn,        \* the value a caller holds and passes to compress...Data
    codecEv,        \* history: the last compress/decompress round trip, with what each call returned
    \* ---- SmartPrefetcher, its calls as SpecPrefetch follows them
    prefLog,        \* history: per prefetchLikelyResources call, [quality, counts |-> accessPatterns
                    \*   at the call, top |-> its sortedResources, steps |-> per candidate the loop
                    \*   has reached: "cached" (skipped), "load" (loadFn awaited), "stored", "failed",
                    \*   done |-> the call has returned]
    prefEv          \* history: the last SmartPrefetcher call or callback, with what it saw

cacheVars == <<cache, maxSize, distinctRun, setLog, cacheEv>>
offVars == <<isOnline, offlineQueue, maxQueueSize, replays, nextId, replayed, offEv>>
retryVars == <<retry, fnLog>>
batchVars == <<pendingUpdates, batchTimeout, bTimers, bDue, nextTimer, sends, added, delivered,
               sinkFailures, lastAddAt, sentUpTo, batchEv>>
prefVars == <<prefetchCache, accessPatterns, prefetches>>
trkVars == <<quality, busId, bus, subscribed, connectionStatus, lastDataUpdate, updateIntervalRef,
             timers, fetches, starts, mounted, version, session, shownIn, budget, trkEv>>
netVars == <<connection, netListeners, monitors, netChanges, netEv>>
\* The parts of the library that no class and no handler of the tracker model touches.
codecVars == <<codecIn, codecEv>>
prefLogVars == <<prefLog, prefEv>>
libVars == <<netVars, codecVars, prefLogVars>>
vars == <<now, cacheVars, offVars, retryVars, batchVars, prefVars, trkVars, libVars>>

\* What the actions of one component leave alone.
notCache == <<offVars, retryVars, batchVars, prefVars, trkVars, libVars>>
notOffline == <<cacheVars, retryVars, batchVars, prefVars, trkVars, libVars>>
notRetry == <<cacheVars, offVars, batchVars, prefVars, trkVars, libVars>>
notNet == <<cacheVars, offVars, retryVars, batchVars, prefVars, trkVars, codecVars, prefLogVars>>
notCodec == <<cacheVars, offVars, retryVars, batchVars, prefVars, trkVars, netVars, prefLogVars>>
notPrefetch == <<cacheVars, offVars, retryVars, batchVars, trkVars, netVars, codecVars>>
notBatch == <<cacheVars, offVars, retryVars, prefVars, trkVars, libVars>>
\* What no handler of the tracker touches.
notTracker == <<maxSize, distinctRun, setLog, cacheEv, maxQueueSize, retryVars, libVars>>

(***************************************************************************)
(* Values shared by the components                                         *)
(***************************************************************************)
\* JavaScript null where an object may stand (records of different shapes compare unequal).
Null == [null |-> TRUE]

NoEv == [op |-> "none"]

\* The last n elements of s (all of s when it has fewer).
LastN(s, n) == IF Len(s) <= n THEN s ELSE SubSeq(s, Len(s) - n + 1, Len(s))

RECURSIVE SeqKeys(_)
SeqKeys(c) == IF c = <<>> THEN <<>> ELSE <<Head(c).key>> \o SeqKeys(Tail(c))

(***************************************************************************)
(* A JavaScript Map<string, V> as the sequence of its entries: iteration   *)
(* and keys() follow insertion order, set() of a present key replaces the  *)
(* value in place, delete() removes the entry.                             *)
(***************************************************************************)
MapHas(c, k) == \E i \in 1..Len(c) : c[i].key = k

MapIndex(c, k) == CHOOSE i \in 1..Len(c) : c[i].key = k

MapGet(c, k) == c[MapIndex(c, k)]

MapDelete(c, k) == SelectSeq(c, LAMBDA e : e.key # k)

MapSet(c, e) == IF MapHas(c, e.key) THEN [c EXCEPT ![MapIndex(c, e.key)] = e] ELSE Append(c, e)

MapKeys(c) == {c[i].key : i \in 1..Len(c)}

MapEntries(m) == {m[i] : i \in 1..Len(m)}

(***************************************************************************)
(* DataCache                                                               *)
(***************************************************************************)
CacheEntry(key, data, t, ttl) == [key |-> key, data |-> data, timestamp |-> t, ttl |-> ttl]

\* set(key, data, ttl): a full cache first loses the first key of the Map.
DataCache_evict_never(c, cap) == c
DataCache_evict(c, cap) == IF Len(c) >= cap /\ c # <<>> THEN Tail(c) ELSE c

DataCache_set(c, cap, key, data, ttl, t) == MapSet(DataCache_evict(c, cap), CacheEntry(key, data, t, ttl))

\* get(key): the expiry test of an entry at time t.
DataCache_expired_inclusive(e, t) == t - e.timestamp >= e.ttl
DataCache_expired(e, t) == t - e.timestamp > e.ttl

\* get(key): the value returned.
DataCache_get(c, key, t) ==
    IF ~MapHas(c, key) THEN Null
    ELSE IF DataCache_expired(MapGet(c, key), t) THEN Null
    ELSE MapGet(c, key).data

\* get(key): the Map it leaves.
DataCache_afterGet(c, key, t) ==
    IF MapHas(c, key) /\ DataCache_expired(MapGet(c, key), t) THEN MapDelete(c, key) ELSE c

DataCache_size(c) == Len(c)

(***************************************************************************)
(* OfflineManager                                                          *)
(***************************************************************************)
\* An element of offlineQueue; id is history (which enqueue made it), not a field of the code.
QueuedItem(key, data, t, id) == [key |-> key, data |-> data, timestamp |-> t, id |-> id]

\* queueUpdate: `while (length >= maxQueueSize) shift()`.
RECURSIVE ShiftWhileFull(_, _)
ShiftWhileFull(q, cap) == IF Len(q) >= cap /\ q # <<>> THEN ShiftWhileFull(Tail(q), cap) ELSE q

\* queueUpdate(key, data): the queue it leaves.
OfflineManager_queueUpdate_always(q, online, cap, item) == Append(ShiftWhileFull(q, cap), item)
OfflineManager_queueUpdate_keepAll(q, online, cap, item) == IF online THEN q ELSE Append(q, item)
OfflineManager_queueUpdate(q, online, cap, item) ==
    IF online THEN q ELSE Append(ShiftWhileFull(q, cap), item)

\* processOfflineQueue: `if (Date.now() - item.timestamp > 3600000) continue`.
StaleMs == 3600000
IsStale(item, t) == t - item.timestamp > StaleMs

\* processOfflineQueue: the index of the first item from `from` on that is not skipped as stale
\* (Len(queue) + 1 when the loop ends).
RECURSIVE NextReplayed(_, _, _)
NextReplayed(queue, from, t) ==
    IF from > Len(queue) THEN from
    ELSE IF IsStale(queue[from], t) THEN NextReplayed(queue, from + 1, t)
    ELSE from

\* processOfflineQueue, catch: `this.offlineQueue.unshift(...queue)`.
OfflineManager_requeue(q, run) == run.queue \o q

(***************************************************************************)
(* retryWithBackoff(fn, maxRetries)                                        *)
(***************************************************************************)
Undefined == "undefined"

\* `for (let attempt = 0; attempt <= maxRetries; attempt++) { try { return await fn() } ...`:
\* the frame when the loop is entered.  With maxRetries < 0 the body never runs and
\* `throw lastError!` throws the unassigned variable.
Retry_start(maxRetries) ==
    [maxRetries |-> maxRetries, attempt |-> 0, lastError |-> Undefined,
     pc |-> IF 0 <= maxRetries THEN "call" ELSE "rejected", settled |-> Undefined]

\* the catch block: `if (attempt === maxRetries) throw lastError`
Retry_lastAttempt_early(f) == f.attempt + 1 >= f.maxRetries
Retry_lastAttempt(f) == f.attempt = f.maxRetries

\* fn() rejected with error e
Retry_onReject(f, e) ==
    IF Retry_lastAttempt(f)
    THEN [f EXCEPT !.lastError = e, !.pc = "rejected", !.settled = e]
    ELSE [f EXCEPT !.lastError = e, !.pc = "delay"]

\* fn() resolved with value v: `return await fn()`
Retry_onResolve(f, v) == [f EXCEPT !.pc = "resolved", !.settled = v]

\* the backoff timer fired: attempt++, and fn() is called again
Retry_onDelayElapsed(f) == [f EXCEPT !.attempt = @ + 1, !.pc = "call"]

\* the frame after fn() rejected n times in a row, each backoff delay elapsed (it stays
\* where the call rejected for good)
RECURSIVE Retry_afterRejects(_, _)
Retry_afterRejects(f, n) ==
    IF n = 0 \/ f.pc # "call" THEN f
    ELSE LET r == Retry_onReject(f, "error") IN
         IF r.pc = "rejected" THEN r ELSE Retry_afterRejects(Retry_onDelayElapsed(r), n - 1)

(***************************************************************************)
(* BatchUpdateManager                                                      *)
(***************************************************************************)
NoTimer == 0
BatchDelay == 3000    \* globalBatchManager = new BatchUpdateManager(3000)

Update(key, data) == [key |-> key, data |-> data]

\* processBatch, catch: `updates.forEach(([key, data]) => this.pendingUpdates.set(key, data))`
RECURSIVE BatchManager_requeue(_, _)
BatchManager_requeue(pending, updates) ==
    IF updates = <<>> THEN pending
    ELSE BatchManager_requeue(MapSet(pending, Head(updates)), Tail(updates))

\* clearTimeout(handle)
ClearTimer(armed, handle) == armed \ {handle}

\* The due times of the timers that stay armed.
StillDue(due, armed) == [h \in armed |-> due[h]]

\* flush(): `if (this.batchTimeout)`
BatchManager_flushActs(handle) == handle # NoTimer

(***************************************************************************)
(* getNetworkInfo.  downlink is in kbit/s here (the browser reports        *)
(* Mbit/s in steps of 0.025), so `downlink < 1.5` reads downlink < 1500.   *)
(***************************************************************************)
DefaultDownlink == 10000
DefaultRtt == 100

\* What navigator.connection reports.
Connection(effectiveType, downlink, rtt) ==
    [effectiveType |-> effectiveType, downlink |-> downlink, rtt |-> rtt]

\* `value || fallback` for a string and for a number
OrString(value, fallback) == IF value = "" THEN fallback ELSE value

OrNumber(value, fallback) == IF value = 0 THEN fallback ELSE value

\* the switch on effectiveType: `type`
NetworkType(effectiveType) ==
    IF effectiveType \in {"slow-2g", "2g", "3g", "4g"} THEN effectiveType ELSE "unknown"

\* the switch on effectiveType: `quality`
BaseQuality(effectiveType, downlink) ==
    CASE effectiveType = "slow-2g" -> "poor"
      [] effectiveType = "2g" -> "poor"
      [] effectiveType = "3g" -> IF downlink < 1500 THEN "poor" ELSE "good"
      [] effectiveType = "4g" -> IF downlink < 5000 THEN "good" ELSE "excellent"
      [] OTHER -> "good"

\* "Adjust quality based on RTT"
AdjustByRtt_keep(base, rtt) == IF rtt > 2000 THEN "poor" ELSE base
AdjustByRtt(base, rtt) ==
    IF rtt > 2000 THEN "poor"
    ELSE IF rtt > 1000 /\ base # "poor" THEN "good"
    ELSE base

\* getNetworkInfo(), by what navigator.connection is
getNetworkInfo(conn) ==
    IF conn = Null
    THEN [type |-> "unknown", quality |-> "good", effectiveType |-> "unknown",
          downlink |-> DefaultDownlink, rtt |-> DefaultRtt]
    ELSE LET effectiveType == OrString(conn.effectiveType, "unknown")
             downlink == OrNumber(conn.downlink, DefaultDownlink)
             rtt == OrNumber(conn.rtt, DefaultRtt)
         IN [type |-> NetworkType(effectiveType),
             quality |-> AdjustByRtt(BaseQuality(effectiveType, downlink), rtt),
             effectiveType |-> effectiveType, downlink |-> downlink, rtt |-> rtt]

(***************************************************************************)
(* getOptimizationSettings, by networkInfo.quality                         *)
(***************************************************************************)
Qualities == {"poor", "good", "excellent"}

UpdateInterval_reversed(q) == CASE q = "poor" -> 5000 [] q = "good" -> 15000 [] q = "excellent" -> 50000
UpdateInterval(q) == CASE q = "poor" -> 50000 [] q = "good" -> 15000 [] q = "excellent" -> 5000

DataCompression(q) == q \in {"poor", "good"}

BatchUpdates(q) == q = "poor"

MaxRetries(q) == CASE q = "poor" -> 2 [] q = "good" -> 3 [] q = "excellent" -> 3

(***************************************************************************)
(* compressBusData / decompressBusData, on the two fields of a bus record  *)
(* that the tracker model carries (busId, updatedAt)                       *)
(***************************************************************************)
\* `upd: busData.updatedAt || Date.now()`
compressBusData(busData, t) ==
    IF busData = Null THEN Null
    ELSE [id |-> busData.busId, upd |-> IF busData.updatedAt # 0 THEN busData.updatedAt ELSE t]

decompressBusData(compressedData) ==
    IF compressedData = Null THEN Null
    ELSE [busId |-> compressedData.id, updatedAt |-> compressedData.upd]

(***************************************************************************)
(* JavaScript values for the codecs, each under a tag: null is Null,       *)
(* a number n is Num(k) with k = n * 10^7 (seven decimals are kept), a     *)
(* string is Str(s), an object is Obj of its properties [key, value] in    *)
(* insertion order, an array is Arr of its items.                          *)
(***************************************************************************)
JsUndefined == [undefined |-> TRUE]

JsNaN == [nan |-> TRUE]

Num(k) == [num |-> k]

Str(s) == [str |-> s]

Obj(props) == [obj |-> props]

Arr(items) == [arr |-> items]

Scale == 10 * 1000 * 1000

IsNum(v) == DOMAIN v = {"num"}

IsStr(v) == DOMAIN v = {"str"}

IsObj(v) == DOMAIN v = {"obj"}

IsArr(v) == DOMAIN v = {"arr"}

\* `value == null`: null or undefined
IsNullish(v) == v = Null \/ v = JsUndefined

\* `!value`
Falsy(v) ==
    \/ IsNullish(v)
    \/ v = JsNaN
    \/ (IsNum(v) /\ v.num = 0)
    \/ (IsStr(v) /\ v.str = "")

Prop(key, value) == [key |-> key, value |-> value]

\* `o.key`, `o[key]`
Get(o, key) == IF MapHas(o.obj, key) THEN MapGet(o.obj, key).value ELSE JsUndefined

\* k to the nearest multiple of step, a half upwards
RoundTo(k, step) == ((2 * k + step) \div (2 * step)) * step

\* `Math.round(v * m) / m`, with step = Scale / m (null counts as 0, undefined gives NaN)
MathRound(v, step) ==
    IF IsNum(v) THEN Num(RoundTo(v.num, step))
    ELSE IF v = Null THEN Num(0)
    ELSE JsNaN

\* `s.substring(0, n)`
Substring(s, n) == IF Len(s) <= n THEN s ELSE SubSeq(s, 1, n)

(***************************************************************************)
(* compressBusData / decompressBusData on whole records                    *)
(* (compressBusData and decompressBusData above are these on the two       *)
(* fields the tracker model carries)                                       *)
(***************************************************************************)
\* `busData.status?.substring(0, 10) || "unknown"`
StatusOf(status) ==
    IF IsStr(status) /\ status.str # "" THEN Str(Substring(status.str, 10)) ELSE Str("unknown")

\* `v ? Math.round(v) : null`
RoundOrNull(v) == IF Falsy(v) THEN Null ELSE MathRound(v, Scale)

\* compressBusData(busData) at time t
CompressBusData(busData, t) ==
    IF Falsy(busData) THEN Null
    ELSE Obj(<<Prop("id", Get(busData, "busId")),
               Prop("lat", MathRound(Get(busData, "lat"), 10)),
               Prop("lon", MathRound(Get(busData, "lon"), 10)),
               Prop("spd", RoundOrNull(Get(busData, "speed"))),
               Prop("hdg", RoundOrNull(Get(busData, "heading"))),
               Prop("sts", StatusOf(Get(busData, "status"))),
               Prop("upd", IF Falsy(Get(busData, "updatedAt")) THEN Num(t * Scale)
                           ELSE Get(busData, "updatedAt"))>>)

\* decompressBusData(compressedData)
DecompressBusData(compressedData) ==
    IF Falsy(compressedData) THEN Null
    ELSE Obj(<<Prop("busId", Get(compressedData, "id")),
               Prop("lat", Get(compressedData, "lat")),
               Prop("lon", Get(compressedData, "lon")),
               Prop("speed", Get(compressedData, "spd")),
               Prop("heading", Get(compressedData, "hdg")),
               Prop("status", Get(compressedData, "sts")),
               Prop("updatedAt", Get(compressedData, "upd"))>>)

(***************************************************************************)
(* compressAdminData / decompressAdminData                                 *)
(***************************************************************************)
\* compressAdminData: `fieldMappings`
FieldMappings ==
    <<<<"busNumber", "bn">>, <<"capacity", "cap">>, <<"model", "mdl">>, <<"year", "yr">>,
      <<"status", "sts">>, <<"routeName", "rn">>, <<"startPoint", "sp">>, <<"endPoint", "ep">>,
      <<"distance", "dst">>, <<"estimatedTime", "et">>, <<"fare", "fr">>,
      <<"operatingHours", "oh">>, <<"stops", "stp">>, <<"latitude", "lat">>,
      <<"longitude", "lon">>, <<"createdAt", "ca">>, <<"updatedAt", "ua">>,
      <<"lastMaintenance", "lm">>, <<"nextMaintenance", "nm">>>>

\* decompressAdminData: `fieldMappings`
ReverseMappings ==
    <<<<"bn", "busNumber">>, <<"cap", "capacity">>, <<"mdl", "model">>, <<"yr", "year">>,
      <<"sts", "status">>, <<"rn", "routeName">>, <<"sp", "startPoint">>, <<"ep", "endPoint">>,
      <<"dst", "distance">>, <<"et", "estimatedTime">>, <<"fr", "fare">>,
      <<"oh", "operatingHours">>, <<"stp", "stops">>, <<"lat", "latitude">>,
      <<"lon", "longitude">>, <<"ca", "createdAt">>, <<"ua", "updatedAt">>,
      <<"lm", "lastMaintenance">>, <<"nm", "nextMaintenance">>>>

\* `fieldMappings[key] || key`
MappedKey(table, key) ==
    IF \E i \in 1..Len(table) : table[i][1] = key
    THEN table[CHOOSE i \in 1..Len(table) : table[i][1] = key][2]
    ELSE key

RECURSIVE compressAdminData(_)
RECURSIVE CompressItems(_)
RECURSIVE CompressProps(_, _)
\* compressAdminData(data)
compressAdminData(data) ==
    IF Falsy(data) THEN Null
    ELSE IF IsArr(data) THEN Arr(CompressItems(data.arr))
    ELSE IF IsObj(data) THEN Obj(CompressProps(data.obj, <<>>))
    ELSE data

\* `data.map((item) => compressAdminData(item))`
CompressItems(items) ==
    IF items = <<>> THEN <<>>
    ELSE <<compressAdminData(Head(items))>> \o CompressItems(Tail(items))

\* the loop over Object.entries(data): `compressed` after the properties props
CompressProps(props, compressed) ==
    IF props = <<>> THEN compressed
    ELSE LET value == Head(props).value
             compressedKey == MappedKey(FieldMappings, Head(props).key)
         IN CompressProps(Tail(props),
                IF IsNullish(value) THEN compressed
                ELSE IF IsStr(value) /\ Len(value.str) > 50
                THEN MapSet(compressed, Prop(compressedKey, Str(Substring(value.str, 50) \o "...")))
                ELSE IF IsNum(value)
                THEN MapSet(compressed, Prop(compressedKey, MathRound(value, Scale \div 100)))
                ELSE MapSet(compressed, Prop(compressedKey, compressAdminData(value))))

RECURSIVE decompressAdminData(_)
RECURSIVE DecompressItems(_)
RECURSIVE DecompressProps(_, _)
\* decompressAdminData(compressedData)
decompressAdminData(compressedData) ==
    IF Falsy(compressedData) THEN Null
    ELSE IF IsArr(compressedData) THEN Arr(DecompressItems(compressedData.arr))
    ELSE IF IsObj(compressedData) THEN Obj(DecompressProps(compressedData.obj, <<>>))
    ELSE compressedData

\* `compressedData.map((item) => decompressAdminData(item))`
DecompressItems(items) ==
    IF items = <<>> THEN <<>>
    ELSE <<decompressAdminData(Head(items))>> \o DecompressItems(Tail(items))

\* the loop over Object.entries(compressedData): `decompressed` after the properties props
DecompressProps(props, decompressed) ==
    IF props = <<>> THEN decompressed
    ELSE DecompressProps(Tail(props),
             MapSet(decompressed, Prop(MappedKey(ReverseMappings, Head(props).key),
                                       decompressAdminData(Head(props).value))))

(***************************************************************************)
(* SmartPrefetcher                                                         *)
(***************************************************************************)
PrefetchCacheSize == 50
DefaultTtl == 300000
TopCount == 5

\* recordAccess(resource)
SmartPrefetcher_recordAccess(ap, resource) ==
    IF MapHas(ap, resource)
    THEN [ap EXCEPT ![MapIndex(ap, resource)].count = @ + 1]
    ELSE Append(ap, [key |-> resource, count |-> 1])

\* `.sort(([, a], [, b]) => b - a)`: by count, descending; Array.prototype.sort is stable.
RECURSIVE InsertByCount(_, _)
InsertByCount(s, e) ==
    IF s = <<>> THEN <<e>>
    ELSE IF Head(s).count >= e.count THEN <<Head(s)>> \o InsertByCount(Tail(s), e)
    ELSE <<e>> \o s

RECURSIVE SortByCount(_)
SortByCount(s) ==
    IF s = <<>> THEN <<>> ELSE InsertByCount(SortByCount(SubSeq(s, 1, Len(s) - 1)), s[Len(s)])

\* `.slice(0, 5)`, and the resources of the entries
SmartPrefetcher_sortedResources(ap) ==
    LET sorted == SortByCount(ap) IN
    SeqKeys(IF Len(sorted) <= TopCount THEN sorted ELSE SubSeq(sorted, 1, TopCount))

\* The loop of prefetchLikelyResources up to its next `await loadFn(resource)`: the resources
\* that prefetchCache.get() finds are skipped (an expired one is removed by that get()).
\* keys is what is left of sortedResources from the awaited resource on, empty at the end.
RECURSIVE SmartPrefetcher_scan(_, _, _)
SmartPrefetcher_scan(pc, keys, t) ==
    IF keys = <<>> THEN [cache |-> pc, keys |-> <<>>]
    ELSE IF DataCache_get(pc, Head(keys), t) # Null
    THEN SmartPrefetcher_scan(pc, Tail(keys), t)
    ELSE [cache |-> DataCache_afterGet(pc, Head(keys), t), keys |-> keys]

\* prefetchLikelyResources: `if (networkQuality === "poor") return`
SmartPrefetcher_skips_never(networkQuality) == FALSE
SmartPrefetcher_skips(networkQuality) == networkQuality = "poor"

\* The candidates the loop still has after the catch block ran for the first of keys.
SmartPrefetcher_afterCatch_abort(keys) == <<>>
SmartPrefetcher_afterCatch(keys) == Tail(keys)

(***************************************************************************)
(* UserTracker                                                             *)
(***************************************************************************)
NoBus == ""
GlobalCacheSize == 200
GlobalQueueSize == 100
FreshMs == 30000

\* `bus_${busId}`
CacheKey(b) == "bus_" \o b

\* What get(ref(db, `buses/${busId}`)) reads when the record exists.
BusRecord(b, v) == [busId |-> b, updatedAt |-> v]

\* `{ ...data, timestamp: Date.now() }`
WithTimestamp(data, t) ==
    IF data = Null THEN [timestamp |-> t]
    ELSE [busId |-> data.busId, updatedAt |-> data.updatedAt, timestamp |-> t]

\* fetchData(): the value it returns for the rawData read, under the settings of quality q
FetchData_returned(rawData, q, t) ==
    IF DataCompression(q) /\ rawData # Null
    THEN decompressBusData(compressBusData(rawData, t))
    ELSE rawData

\* fetchData(): the value it puts in globalDataCache
FetchData_cached(rawData, q, t) == WithTimestamp(FetchData_returned(rawData, q, t), t)

\* fetchBusDataOptimized: `cachedData && Date.now() - cachedData.timestamp < 30000`
GlobalCacheHit_anyAge(c, b, t) == DataCache_get(c, CacheKey(b), t) # Null
GlobalCacheHit(c, b, t) ==
    LET cachedData == DataCache_get(c, CacheKey(b), t) IN
    cachedData # Null /\ t - cachedData.timestamp < FreshMs

\* fetchBusDataOptimized: `if (prefetched)`, reached when the global cache missed
PrefetchHit(pc, b, t) == DataCache_get(pc, CacheKey(b), t) # Null

\* fetchBusDataOptimized: the cache entry it answers from without a backend read, or Null.
FetchAnswer(c, pc, b, t) ==
    IF GlobalCacheHit(c, b, t)
    THEN [from |-> "cache", entry |-> MapGet(c, CacheKey(b))]
    ELSE IF PrefetchHit(pc, b, t)
    THEN [from |-> "prefetch", entry |-> MapGet(pc, CacheKey(b))]
    ELSE Null

\* A bag with one more, or one less, copy of x.
BagAdd(B, x) == B (+) SetToBag({x})

BagRemove(B, x) == B (-) SetToBag({x})

\* `setInterval(() => fetchBusDataOptimized(b), optimizationSettings.updateInterval)` in a
\* render with quality q: the timer it arms.
Timer(b, q) == [busId |-> b, q |-> q]

SetInterval(T, x) == BagAdd(T, x)

\* clearInterval of the timer x
ClearInterval(T, x) == BagRemove(T, x)

\* `if (updateIntervalRef.current) { clearInterval(updateIntervalRef.current) ... }`
ClearRef(T, held) == IF held # Null THEN ClearInterval(T, held) ELSE T

\* The effect on [optimizationSettings.updateInterval, subscribed, busId, fetchBusDataOptimized],
\* run after a render with these values: the timers and the ref it leaves.
Reschedule(T, held, sub, b, q) ==
    IF sub /\ b # NoBus /\ held # Null
    THEN [timers |-> SetInterval(ClearInterval(T, held), Timer(b, q)), ref |-> Timer(b, q)]
    ELSE [timers |-> T, ref |-> held]

(***************************************************************************)
(* SpecCache: one DataCache under any sequence of set / get / clear        *)
(***************************************************************************)
MaxTicks == 3
TickMs == 50    \* the clock's step in SpecCache
Capacities == {1, 2}
CacheKeys == {"k1", "k2", "k3"}
CacheData == {[v |-> 1], [v |-> 2]}
CacheTtls == {TickMs, 2 * TickMs}

\* A component that a specification leaves out stays as constructed.
IdleOffline ==
    /\ isOnline = TRUE
    /\ offlineQueue = <<>>
    /\ maxQueueSize = 1
    /\ replays = {}
    /\ nextId = 0
    /\ replayed = <<>>
    /\ offEv = NoEv

IdleRetry ==
    /\ retry = Retry_start(0)
    /\ fnLog = <<>>

IdleBatch ==
    /\ pendingUpdates = <<>>
    /\ batchTimeout = NoTimer
    /\ bTimers = {}
    /\ nextTimer = 0
    /\ sends = {}
    /\ added = <<>>
    /\ delivered = {}
    /\ sinkFailures = 0
    /\ bDue = <<>>
    /\ lastAddAt = 0
    /\ sentUpTo = 0
    /\ batchEv = NoEv

IdleNet ==
    /\ connection = Null
    /\ netListeners = {}
    /\ monitors = <<>>
    /\ netChanges = 0
    /\ netEv = NoEv

IdleCodec ==
    /\ codecIn = Null
    /\ codecEv = NoEv

IdlePrefLog ==
    /\ prefLog = <<>>
    /\ prefEv = NoEv

IdleUserTracker ==
    /\ quality = "excellent"
    /\ busId = NoBus
    /\ bus = Null
    /\ subscribed = FALSE
    /\ connectionStatus = "connected"
    /\ lastDataUpdate = 0
    /\ updateIntervalRef = Null
    /\ timers = EmptyBag
    /\ fetches = EmptyBag
    /\ starts = EmptyBag
    /\ mounted = FALSE
    /\ version = 1
    /\ session = 0
    /\ shownIn = 0
    /\ budget = 0
    /\ trkEv = NoEv

IdleTracker ==
    /\ prefetchCache = <<>>
    /\ accessPatterns = <<>>
    /\ prefetches = EmptyBag
    /\ IdleUserTracker

InitCache ==
    /\ now = 0
    /\ cache = <<>>
    /\ maxSize \in Capacities
    /\ setLog = <<>>
    /\ distinctRun = TRUE
    /\ cacheEv = NoEv

CacheSet(key, data, ttl) ==
    /\ cache' = DataCache_set(cache, maxSize, key, data, ttl, now)
    /\ distinctRun' = (distinctRun /\ key \notin {setLog[i] : i \in 1..Len(setLog)})
    /\ setLog' = IF distinctRun' THEN Append(setLog, key) ELSE <<>>
    /\ cacheEv' = [op |-> "set", key |-> key, before |-> cache]
    /\ UNCHANGED <<now, maxSize, notCache>>

CacheGet(key) ==
    /\ cache' = DataCache_afterGet(cache, key, now)
    /\ cacheEv' = [op |-> "get", key |-> key, at |-> now,
                   had |-> MapHas(cache, key),
                   entry |-> IF MapHas(cache, key) THEN MapGet(cache, key) ELSE CacheEntry(key, Null, 0, 0),
                   result |-> DataCache_get(cache, key, now)]
    /\ distinctRun' = (distinctRun /\ cache' = cache)
    /\ setLog' = IF distinctRun' THEN setLog ELSE <<>>
    /\ UNCHANGED <<now, maxSize, notCache>>

CacheClear ==
    /\ cache' = <<>>
    /\ setLog' = <<>>
    /\ distinctRun' = TRUE
    /\ cacheEv' = [op |-> "clear"]
    /\ UNCHANGED <<now, maxSize, notCache>>

CacheTick ==
    /\ now < MaxTicks * TickMs
    /\ now' = now + TickMs
    /\ UNCHANGED <<cacheVars, notCache>>

NextCache ==
    \/ \E key \in CacheKeys, data \in CacheData, ttl \in CacheTtls : CacheSet(key, data, ttl)
    \/ \E key \in CacheKeys : CacheGet(key)
    \/ CacheClear
    \/ CacheTick

InitSpecCache == InitCache /\ IdleOffline /\ IdleRetry /\ IdleBatch /\ IdleTracker /\ IdleNet /\ IdleCodec /\ IdlePrefLog

SpecCache == InitSpecCache /\ [][NextCache]_vars

(***************************************************************************)
(* C1  The cache never holds more than its capacity (capacity >= 1), and   *)
(* after set() of distinct keys only, starting empty with nothing expired, *)
(* it holds exactly the last `capacity` keys set, in insertion order: once *)
(* more than `capacity` keys were set the size equals the capacity and the *)
(* first-inserted keys are gone.                                           *)
(***************************************************************************)
C1_CapacityInvariant ==
    /\ DataCache_size(cache) <= maxSize
    /\ distinctRun => SeqKeys(cache) = LastN(setLog, maxSize)

C1_Witness ==
    /\ distinctRun
    /\ Len(setLog) > maxSize
    /\ DataCache_size(cache) = maxSize
    /\ setLog[1] \notin {cache[i].key : i \in 1..Len(cache)}

(***************************************************************************)
(* C5  get(key) of a present entry returns null and deletes the entry      *)
(* exactly when now - timestamp > ttl; otherwise it returns the stored     *)
(* data and leaves the Map (so the entry's timestamp and ttl) unchanged.   *)
(* An entry whose age equals its ttl is still returned.                    *)
(***************************************************************************)
C5_GetExpiry ==
    (cacheEv.op = "get" /\ cacheEv.had) =>
        LET e == cacheEv.entry IN
        IF cacheEv.at - e.timestamp > e.ttl
        THEN /\ cacheEv.result = Null
             /\ ~MapHas(cache, cacheEv.key)
        ELSE /\ cacheEv.result = e.data
             /\ MapHas(cache, cacheEv.key)
             /\ MapGet(cache, cacheEv.key) = e

\* A value set with ttl 100 ms is read at age 150 ms: absent, and removed.
C5_Witness ==
    /\ cacheEv.op = "get"
    /\ cacheEv.had
    /\ cacheEv.entry.ttl = 2 * TickMs
    /\ cacheEv.at - cacheEv.entry.timestamp = 3 * TickMs
    /\ cacheEv.result = Null
    /\ ~MapHas(cache, cacheEv.key)

\* The same value read at age 100 ms, equal to its ttl: still returned, entry untouched.
C5_WitnessAtTtl ==
    /\ cacheEv.op = "get"
    /\ cacheEv.had
    /\ cacheEv.at - cacheEv.entry.timestamp = cacheEv.entry.ttl
    /\ cacheEv.result = cacheEv.entry.data
    /\ MapHas(cache, cacheEv.key)

(***************************************************************************)
(* C30  set(k, v) of a key that is present removes no other key, also when *)
(* the cache is at capacity; and an entry that a set of a new key removes  *)
(* has the smallest timestamp of the entries held before the call.         *)
(* The code breaks it: a full cache loses its first key on every set,      *)
(* whether the key that is set is present or not.                          *)
(***************************************************************************)
C30_SetFrame ==
    cacheEv.op = "set" =>
        LET before == cacheEv.before IN
        IF MapHas(before, cacheEv.key)
        THEN MapKeys(before) \subseteq MapKeys(cache)
        ELSE \A e \in MapEntries(before) :
                 ~MapHas(cache, e.key) => \A o \in MapEntries(before) : e.timestamp <= o.timestamp

(***************************************************************************)
(* SpecOffline: one OfflineManager under online/offline events, queueUpdate *)
(* calls and replay runs.  processQueuedUpdate is the write to the backend: *)
(* it completes later, with or without an error, and other callbacks run    *)
(* in between.                                                              *)
(***************************************************************************)
MaxEnqueues == 3
MaxReplays == 2
MaxOffTicks == 2
OffTickMs == 3600000    \* the clock's step in SpecOffline: one hour
QueueCapacities == {1, 2}
OffKeys == {"A"}         \* the queue never reads an entry's key or data: entries differ by id and timestamp

InitOffline ==
    /\ now = 0
    /\ isOnline \in BOOLEAN
    /\ offlineQueue = <<>>
    /\ maxQueueSize \in QueueCapacities
    /\ replays = {}
    /\ nextId = 0
    /\ replayed = [id \in 1..MaxEnqueues |-> 0]
    /\ offEv = NoEv

\* queueUpdate(key, data)
QueueUpdate(key, data) ==
    /\ nextId < MaxEnqueues
    /\ offlineQueue' = OfflineManager_queueUpdate(offlineQueue, isOnline, maxQueueSize,
                                                  QueuedItem(key, data, now, nextId + 1))
    /\ nextId' = IF isOnline THEN nextId ELSE nextId + 1
    /\ offEv' = [op |-> "queueUpdate", online |-> isOnline, queue |-> offlineQueue,
                 item |-> QueuedItem(key, data, now, nextId + 1)]
    /\ UNCHANGED <<now, isOnline, maxQueueSize, replays, replayed, notOffline>>

\* window "offline"
OfflineEvent_do ==
    /\ isOnline
    /\ isOnline' = FALSE
    /\ offEv' = [op |-> "offline"]
    /\ UNCHANGED <<offlineQueue, maxQueueSize, replays, nextId, replayed>>

OfflineEvent == OfflineEvent_do /\ UNCHANGED <<now, notOffline>>

\* window "online": isOnline = true; processOfflineQueue() up to its first await
OnlineEvent_do ==
    /\ Cardinality(replays) < MaxReplays
    /\ isOnline' = TRUE
    /\ IF offlineQueue = <<>>
       THEN UNCHANGED <<offlineQueue, replays>>
       ELSE /\ offlineQueue' = <<>>
            /\ LET pos == NextReplayed(offlineQueue, 1, now) IN
               replays' = IF pos > Len(offlineQueue) THEN replays
                          ELSE replays \cup {[queue |-> offlineQueue, pos |-> pos]}
    /\ offEv' = [op |-> "online", at |-> now, queue |-> offlineQueue, from |-> 1,
                 next |-> NextReplayed(offlineQueue, 1, now)]
    /\ UNCHANGED <<maxQueueSize, nextId, replayed>>

OnlineEvent == OnlineEvent_do /\ UNCHANGED <<now, notOffline>>

\* processQueuedUpdate(item) resolves: the loop goes on to the next item that is not stale
ReplayResolve_do(run) ==
    /\ run \in replays
    /\ replayed' = [replayed EXCEPT ![run.queue[run.pos].id] = IF @ < 2 THEN @ + 1 ELSE @]
    /\ LET pos == NextReplayed(run.queue, run.pos + 1, now) IN
       replays' = IF pos > Len(run.queue) THEN replays \ {run}
                  ELSE (replays \ {run}) \cup {[run EXCEPT !.pos = pos]}
    /\ offEv' = [op |-> "resolved", at |-> now, queue |-> run.queue, from |-> run.pos + 1,
                 next |-> NextReplayed(run.queue, run.pos + 1, now)]
    /\ UNCHANGED <<isOnline, offlineQueue, maxQueueSize, nextId>>

ReplayResolve(run) == ReplayResolve_do(run) /\ UNCHANGED <<now, notOffline>>

\* processQueuedUpdate(item) rejects: the catch block
ReplayReject_do(run) ==
    /\ run \in replays
    /\ offlineQueue' = OfflineManager_requeue(offlineQueue, run)
    /\ replays' = replays \ {run}
    /\ offEv' = [op |-> "rejected", at |-> now, run |-> run, queue |-> offlineQueue]
    /\ UNCHANGED <<isOnline, maxQueueSize, nextId, replayed>>

ReplayReject(run) == ReplayReject_do(run) /\ UNCHANGED <<now, notOffline>>

OffTick ==
    /\ now < MaxOffTicks * OffTickMs
    /\ now' = now + OffTickMs
    /\ UNCHANGED <<offVars, notOffline>>

NextOffline ==
    \/ \E key \in OffKeys : QueueUpdate(key, "d")
    \/ OfflineEvent
    \/ OnlineEvent
    \/ \E run \in replays : ReplayResolve(run)
    \/ \E run \in replays : ReplayReject(run)
    \/ OffTick

IdleCache ==
    /\ cache = <<>>
    /\ maxSize = 1
    /\ setLog = <<>>
    /\ distinctRun = TRUE
    /\ cacheEv = NoEv

InitSpecOffline == InitOffline /\ IdleCache /\ IdleRetry /\ IdleBatch /\ IdleTracker /\ IdleNet /\ IdleCodec /\ IdlePrefLog

SpecOffline == InitSpecOffline /\ [][NextOffline]_vars

(***************************************************************************)
(* C2  getQueueSize() <= maxQueueSize in every reachable state.            *)
(* The code breaks it: the catch block of processOfflineQueue puts the     *)
(* whole snapshot back in front of whatever was enqueued during the run,   *)
(* without looking at maxQueueSize.                                        *)
(***************************************************************************)
C2_QueueBounded == Len(offlineQueue) <= maxQueueSize

(***************************************************************************)
(* C3  processQueuedUpdate completes without error at most once for each   *)
(* enqueued entry.  The code breaks it: the catch block re-queues the      *)
(* entries of the snapshot that were already replayed, too.                *)
(***************************************************************************)
C3_ReplayedAtMostOnce == \A id \in DOMAIN replayed : replayed[id] <= 1

\* The entries of the sequence q from index i on.
From(q, i) == SubSeq(q, i, Len(q))

(***************************************************************************)
(* C13  When the replay of an entry fails, the entries put back at the     *)
(* head of the queue are the failed entry and the entries after it in the  *)
(* snapshot, in their order, ahead of what was enqueued during the replay; *)
(* the entries before it (replayed or skipped as stale) are not put back.  *)
(* The code breaks it: the catch block puts the whole snapshot back.       *)
(***************************************************************************)
C13_RequeueFromFailed ==
    offEv.op = "rejected" =>
        offlineQueue = From(offEv.run.queue, offEv.run.pos) \o offEv.queue

(***************************************************************************)
(* C14  A replay run passes to processQueuedUpdate exactly the entries of  *)
(* its snapshot that are at most one hour old when the loop reaches them:  *)
(* an older entry is skipped, never passed.  When the run has ended, by    *)
(* the end of the loop or by a failure, no entry the loop went past that   *)
(* is older than one hour is in the queue.  The code breaks the last part: *)
(* a failure puts the skipped entries back with the rest of the snapshot.  *)
(***************************************************************************)
C14_StaleSkippedAndDropped ==
    /\ offEv.op \in {"online", "resolved"} =>
           /\ \A i \in offEv.from..Len(offEv.queue) :
                  i < offEv.next => IsStale(offEv.queue[i], offEv.at)
           /\ offEv.next <= Len(offEv.queue) =>
                  /\ ~IsStale(offEv.queue[offEv.next], offEv.at)
                  /\ [queue |-> offEv.queue, pos |-> offEv.next] \in replays
           /\ offEv.next > Len(offEv.queue) =>
                  \A i \in 1..Len(offEv.queue) :
                      IsStale(offEv.queue[i], offEv.at) =>
                          \A j \in 1..Len(offlineQueue) : offlineQueue[j] # offEv.queue[i]
    /\ offEv.op = "rejected" =>
           \A i \in 1..(offEv.run.pos - 1) :
               IsStale(offEv.run.queue[i], offEv.at) =>
                   \A j \in 1..Len(offlineQueue) : offlineQueue[j] # offEv.run.queue[i]

(***************************************************************************)
(* C15  queueUpdate while offline on a queue that holds maxQueueSize       *)
(* entries removes exactly the first-enqueued entry and appends the new    *)
(* one at the tail (the size stays maxQueueSize, the other entries keep    *)
(* their order); queueUpdate while online leaves the queue unchanged.      *)
(***************************************************************************)
C15_DropOldest ==
    offEv.op = "queueUpdate" =>
        IF offEv.online
        THEN offlineQueue = offEv.queue
        ELSE Len(offEv.queue) = maxQueueSize =>
                 /\ offlineQueue = Append(Tail(offEv.queue), offEv.item)
                 /\ Len(offlineQueue) = maxQueueSize

C15_Witness ==
    /\ offEv.op = "queueUpdate"
    /\ ~offEv.online
    /\ maxQueueSize = 2
    /\ Len(offEv.queue) = 2
    /\ nextId = 3
    /\ offlineQueue = <<offEv.queue[2], offEv.item>>
    /\ offEv.queue[1].id = 1
    /\ \A j \in 1..Len(offlineQueue) : offlineQueue[j].id # 1

C15_WitnessOnline ==
    /\ offEv.op = "queueUpdate"
    /\ offEv.online
    /\ offEv.queue # <<>>
    /\ offlineQueue = offEv.queue

(***************************************************************************)
(* SpecRetry: one call retryWithBackoff(fn, maxRetries) with a fn that     *)
(* resolves or rejects as it likes                                         *)
(***************************************************************************)
MaxRetriesArg == 3
FnValues == {"v1", "v2"}
FnErrors == {"e1", "e2"}

InitRetry ==
    /\ now = 0
    /\ \E maxRetries \in 0..MaxRetriesArg : retry = Retry_start(maxRetries)
    /\ fnLog = <<>>

FnResolves(v) ==
    /\ retry.pc = "call"
    /\ retry' = Retry_onResolve(retry, v)
    /\ fnLog' = Append(fnLog, v)
    /\ UNCHANGED <<now, notRetry>>

FnRejects(e) ==
    /\ retry.pc = "call"
    /\ retry' = Retry_onReject(retry, e)
    /\ fnLog' = Append(fnLog, e)
    /\ UNCHANGED <<now, notRetry>>

BackoffElapsed ==
    /\ retry.pc = "delay"
    /\ retry' = Retry_onDelayElapsed(retry)
    /\ UNCHANGED <<now, fnLog, notRetry>>

NextRetry ==
    \/ \E v \in FnValues : FnResolves(v)
    \/ \E e \in FnErrors : FnRejects(e)
    \/ BackoffElapsed

InitSpecRetry == InitRetry /\ IdleCache /\ IdleOffline /\ IdleBatch /\ IdleTracker /\ IdleNet /\ IdleCodec /\ IdlePrefLog

SpecRetry == InitSpecRetry /\ [][NextRetry]_vars

\* fn has been called once per entry of fnLog, and once more while a call is awaited.
FnCalls == Len(fnLog) + (IF retry.pc = "call" THEN 1 ELSE 0)

(***************************************************************************)
(* C4  retryWithBackoff(fn, maxRetries), maxRetries >= 0: it rejects only  *)
(* after exactly maxRetries + 1 calls of fn that all failed, and with the  *)
(* error of the last call; it resolves with the value of the one call that *)
(* succeeded, which is the last call made; fn is never called more than    *)
(* maxRetries + 1 times.                                                   *)
(***************************************************************************)
C4_RetryCount ==
    /\ FnCalls <= retry.maxRetries + 1
    /\ retry.pc = "rejected" =>
          /\ Len(fnLog) = retry.maxRetries + 1
          /\ \A i \in 1..Len(fnLog) : fnLog[i] \in FnErrors
          /\ retry.settled = fnLog[Len(fnLog)]
    /\ retry.pc = "resolved" =>
          /\ fnLog # <<>>
          /\ \A i \in 1..(Len(fnLog) - 1) : fnLog[i] \in FnErrors
          /\ fnLog[Len(fnLog)] \in FnValues
          /\ retry.settled = fnLog[Len(fnLog)]
    /\ retry.pc \in {"call", "delay"} => \A i \in 1..Len(fnLog) : fnLog[i] \in FnErrors

\* maxRetries = 2, fn failed three times with different errors, and the call rejected with the third.
C4_Witness ==
    /\ retry.maxRetries = 2
    /\ retry.pc = "rejected"
    /\ fnLog = <<"e1", "e1", "e2">>
    /\ retry.settled = "e2"

(***************************************************************************)
(* SpecBatch: one BatchUpdateManager under addUpdate and flush calls, its  *)
(* debounce timer, and a sink (sendBatchUpdate, the write to the server)   *)
(* that settles later, with or without an error.                           *)
(***************************************************************************)
MaxAdds == 3
MaxSinkFailures == 2
BatchTickMs == 1500    \* the clock's step while a batch timer is armed
BatchKeys == {"A", "B"}

InitBatch ==
    /\ now = 0
    /\ IdleBatch

\* processBatch() up to its await: the pending map, the handle and the sends it leaves
\* (nothing changes when nothing is pending)
ProcessBatch ==
    IF pendingUpdates = <<>>
    THEN UNCHANGED <<pendingUpdates, batchTimeout, sends, sentUpTo>>
    ELSE /\ sends' = sends \cup {pendingUpdates}
         /\ pendingUpdates' = <<>>
         /\ batchTimeout' = NoTimer
         /\ sentUpTo' = Len(added)

\* addUpdate(key, data): the entry is set, the armed timer is cleared, a new one is armed
BatchManager_addUpdate(key, data) ==
    /\ pendingUpdates' = MapSet(pendingUpdates, Update(key, data))
    /\ nextTimer' = nextTimer + 1
    /\ batchTimeout' = nextTimer'
    /\ bTimers' = (IF batchTimeout # NoTimer THEN ClearTimer(bTimers, batchTimeout) ELSE bTimers)
                      \cup {nextTimer'}
    /\ bDue' = [h \in bTimers' |-> IF h = nextTimer' THEN now + BatchDelay ELSE bDue[h]]
    /\ added' = Append(added, key)
    /\ lastAddAt' = now
    /\ batchEv' = [op |-> "addUpdate", key |-> key, data |-> data, armed |-> bTimers]
    /\ UNCHANGED <<sends, delivered, sinkFailures, sentUpTo>>

\* a caller's addUpdate(key, data), with the number of the call as data
AddUpdate(key) ==
    /\ Len(added) < MaxAdds
    /\ BatchManager_addUpdate(key, Len(added) + 1)
    /\ UNCHANGED <<now, notBatch>>

\* the setTimeout callback of addUpdate, batchDelay or more after the timer was set: processBatch()
BatchTimerFires(handle) ==
    /\ handle \in bTimers
    /\ now >= bDue[handle]
    /\ bTimers' = bTimers \ {handle}
    /\ bDue' = StillDue(bDue, bTimers')
    /\ ProcessBatch
    /\ batchEv' = [op |-> "timer", at |-> now, lastAdd |-> lastAddAt, pending |-> pendingUpdates,
                    sends |-> sends, from |-> sentUpTo, upto |-> Len(added)]
    /\ UNCHANGED <<now, nextTimer, added, delivered, sinkFailures, lastAddAt, notBatch>>

\* flush()
Flush ==
    /\ IF BatchManager_flushActs(batchTimeout)
       THEN /\ bTimers' = ClearTimer(bTimers, batchTimeout)
            /\ bDue' = StillDue(bDue, bTimers')
            /\ ProcessBatch
       ELSE UNCHANGED <<pendingUpdates, batchTimeout, bTimers, bDue, sends, sentUpTo>>
    /\ batchEv' = [op |-> "flush", at |-> now, lastAdd |-> lastAddAt, pending |-> pendingUpdates,
                    sends |-> sends, from |-> sentUpTo, upto |-> Len(added)]
    /\ UNCHANGED <<now, nextTimer, added, delivered, sinkFailures, lastAddAt, notBatch>>

\* sendBatchUpdate(updates) resolves
SendResolves(updates) ==
    /\ updates \in sends
    /\ sends' = sends \ {updates}
    /\ delivered' = delivered \cup {updates[i].data : i \in 1..Len(updates)}
    /\ batchEv' = [op |-> "resolved"]
    /\ UNCHANGED <<now, pendingUpdates, batchTimeout, bTimers, bDue, nextTimer, added, sinkFailures,
                   lastAddAt, sentUpTo, notBatch>>

\* sendBatchUpdate(updates) rejects: the catch block of processBatch
SendRejects(updates) ==
    /\ updates \in sends
    /\ sinkFailures < MaxSinkFailures
    /\ sends' = sends \ {updates}
    /\ pendingUpdates' = BatchManager_requeue(pendingUpdates, updates)
    /\ sinkFailures' = sinkFailures + 1
    /\ batchEv' = [op |-> "rejected", updates |-> updates, pending |-> pendingUpdates]
    /\ UNCHANGED <<now, batchTimeout, bTimers, bDue, nextTimer, added, delivered, lastAddAt,
                   sentUpTo, notBatch>>

\* The clock advances while a timer that is armed is not due yet.
BatchTick_do ==
    /\ \E h \in bTimers : now < bDue[h]
    /\ now' = now + BatchTickMs
    /\ UNCHANGED batchVars

BatchTick == BatchTick_do /\ UNCHANGED notBatch

NextBatch ==
    \/ \E key \in BatchKeys : AddUpdate(key)
    \/ \E handle \in bTimers : BatchTimerFires(handle)
    \/ Flush
    \/ \E updates \in sends : SendResolves(updates)
    \/ \E updates \in sends : SendRejects(updates)
    \/ BatchTick

InitSpecBatch == InitBatch /\ IdleCache /\ IdleOffline /\ IdleRetry /\ IdleTracker /\ IdleNet /\ IdleCodec /\ IdlePrefLog

SpecBatch == InitSpecBatch /\ [][NextBatch]_vars

\* The event loop runs every timer that stays armed and every send settles; the sink fails at
\* most MaxSinkFailures times, so it eventually succeeds.  addUpdate and flush are the caller's.
SpecBatchFair ==
    /\ SpecBatch
    /\ WF_vars(BatchTick)
    /\ WF_vars(\E handle \in bTimers : BatchTimerFires(handle))
    /\ WF_vars(\E updates \in sends : SendResolves(updates))

\* Payload n was handed to the sink in a send that succeeded, or a later addUpdate has the same key.
Settled(n) ==
    \/ n \in delivered
    \/ \E m \in (n + 1)..Len(added) : added[m] = added[n]

(***************************************************************************)
(* C10  At least once: every payload passed to addUpdate is eventually     *)
(* handed to the sink in a send that succeeds, or superseded by a newer    *)
(* payload for its key, provided the sink eventually succeeds and without  *)
(* any further addUpdate call.  The code breaks it: after a failed send    *)
(* the entries are back in pendingUpdates, but no timer is armed and       *)
(* flush() does nothing while batchTimeout is null.                        *)
(***************************************************************************)
C10_AtLeastOnce == \A n \in 1..MaxAdds : [](n <= Len(added) => <>Settled(n))

(***************************************************************************)
(* C11  flush() called while entries are pending hands all of them to the  *)
(* sink in that call, as one batch, and leaves the pending map empty and   *)
(* no debounce timer armed (so no later timer fire sends them again);      *)
(* flush() with nothing pending sends nothing.  The code breaks the first  *)
(* half: flush() acts only while batchTimeout is set, and processBatch     *)
(* has set it to null before a send whose failure puts the entries back.   *)
(***************************************************************************)
C11_FlushSendsPending ==
    batchEv.op = "flush" =>
        IF batchEv.pending # <<>>
        THEN /\ sends = batchEv.sends \cup {batchEv.pending}
             /\ batchEv.pending \notin batchEv.sends
             /\ pendingUpdates = <<>>
             /\ bTimers = {}
        ELSE sends = batchEv.sends

\* The entries a batch holds when it has, for each key of the addUpdate calls from+1..upto, the
\* payload of the last of them (in SpecBatch call n passes n).
AddedSince(from, upto) ==
    {Update(added[n], n) : n \in {i \in (from + 1)..upto : \A m \in (i + 1)..upto : added[m] # added[i]}}

(***************************************************************************)
(* C12  Debounce and coalescing: at most one debounce timer is armed at    *)
(* any time; an addUpdate leaves armed only the timer it set, due          *)
(* batchDelay later; a timer sends a batch only when batchDelay has passed *)
(* since the last addUpdate; that batch is one sink call holding exactly   *)
(* one entry per distinct key added since the previous send, with the      *)
(* key's most recently added payload, and the pending map is empty once    *)
(* the send has started.  The code breaks the part on the batch's          *)
(* contents: a failed send puts its entries back over newer ones.          *)
(***************************************************************************)
C12_DebounceCoalesce ==
    /\ Cardinality(bTimers) <= 1
    /\ batchEv.op = "addUpdate" =>
           /\ bTimers = {batchTimeout}
           /\ batchTimeout \notin batchEv.armed
           /\ bDue[batchTimeout] = lastAddAt + BatchDelay
    /\ (batchEv.op = "timer" /\ batchEv.pending # <<>>) =>
           /\ batchEv.at - batchEv.lastAdd >= BatchDelay
           /\ sends = batchEv.sends \cup {batchEv.pending}
           /\ batchEv.pending \notin batchEv.sends
           /\ Cardinality(MapEntries(batchEv.pending)) = Len(batchEv.pending)
           /\ MapEntries(batchEv.pending) = AddedSince(batchEv.from, batchEv.upto)
           /\ pendingUpdates = <<>>

(***************************************************************************)
(* C26  When a send fails, a key of the failed batch for which a payload   *)
(* was added after the batch was taken (call n passes n, so the later      *)
(* payload is the greater) keeps that later payload in the pending map     *)
(* after the catch block has run.  The code breaks it: the catch block     *)
(* sets every entry of the failed batch over what is pending.              *)
(***************************************************************************)
C26_RequeueKeepsNewer ==
    batchEv.op = "rejected" =>
        \A u \in MapEntries(batchEv.updates) :
            (MapHas(batchEv.pending, u.key) /\ MapGet(batchEv.pending, u.key).data > u.data) =>
                MapGet(pendingUpdates, u.key) = MapGet(batchEv.pending, u.key)

(***************************************************************************)
(* SpecClassify: getNetworkInfo() under every connection a browser may     *)
(* report, at the values around the thresholds of the classification.      *)
(***************************************************************************)
EffectiveTypes == {"slow-2g", "2g", "3g", "4g", "5g", ""}
Downlinks == {0, 25, 1475, 1500, 4975, 5000, 10000}
Rtts == {0, 100, 1000, 1025, 2000, 2025, 2500}

Connections == {Connection(e, d, r) : e \in EffectiveTypes, d \in Downlinks, r \in Rtts}

InitClassify ==
    /\ now = 0
    /\ connection \in Connections \cup {Null}
    /\ netListeners = {}
    /\ monitors = <<>>
    /\ netChanges = 0
    /\ netEv = NoEv

\* a call getNetworkInfo()
GetNetworkInfo ==
    /\ netEv' = [op |-> "getNetworkInfo", info |-> getNetworkInfo(connection)]
    /\ UNCHANGED <<now, connection, netListeners, monitors, netChanges, notNet>>

NextClassify == GetNetworkInfo

InitSpecClassify ==
    InitClassify /\ IdleCache /\ IdleOffline /\ IdleRetry /\ IdleBatch /\ IdleTracker /\ IdleCodec /\ IdlePrefLog

SpecClassify == InitSpecClassify /\ [][NextClassify]_vars

\* The class the table gives for the reported type and downlink.
TableBase(effectiveType, downlink) ==
    CASE effectiveType \in {"slow-2g", "2g"} -> "poor"
      [] effectiveType = "3g" -> IF downlink < 1500 THEN "poor" ELSE "good"
      [] effectiveType = "4g" -> IF downlink < 5000 THEN "good" ELSE "excellent"
      [] OTHER -> "good"

\* The class the table gives for a reported connection.
TableQuality(conn) ==
    LET base == TableBase(conn.effectiveType, conn.downlink) IN
    IF conn.rtt > 2000 THEN "poor"
    ELSE IF conn.rtt > 1000 /\ base # "poor" THEN "good"
    ELSE base

(***************************************************************************)
(* C16  The quality getNetworkInfo returns is the table's class of the     *)
(* reported (effectiveType, downlink, rtt), for every reported triple:     *)
(* slow-2g, 2g: poor; 3g: poor below 1.5 Mbit/s, else good; 4g: good below *)
(* 5 Mbit/s, else excellent; other types: good; then rtt > 2000: poor,     *)
(* else rtt > 1000 and not poor: good.  The code breaks it for a reported  *)
(* downlink of 0, which `connection.downlink || 10` replaces by 10.        *)
(***************************************************************************)
C16_QualityTable ==
    (netEv.op = "getNetworkInfo" /\ connection # Null) =>
        netEv.info.quality = TableQuality(connection)

(***************************************************************************)
(* C17, as the code has it  For a round-trip time in (1000, 2000] ms the   *)
(* only change the adjustment makes to the class of the connection type    *)
(* is from excellent to good: poor stays poor and good stays good.         *)
(***************************************************************************)
C17_RttLowersExcellent ==
    (/\ netEv.op = "getNetworkInfo"
     /\ connection # Null
     /\ netEv.info.rtt > 1000
     /\ netEv.info.rtt <= 2000) =>
        LET base == BaseQuality(netEv.info.effectiveType, netEv.info.downlink) IN
        netEv.info.quality = IF base = "excellent" THEN "good" ELSE base

C17_Witness ==
    /\ netEv.op = "getNetworkInfo"
    /\ connection = Connection("4g", 10000, 1025)
    /\ BaseQuality(netEv.info.effectiveType, netEv.info.downlink) = "excellent"
    /\ netEv.info.quality = "good"

C17_WitnessPoor ==
    /\ netEv.op = "getNetworkInfo"
    /\ connection = Connection("2g", 25, 2000)
    /\ netEv.info.quality = "poor"

(***************************************************************************)
(* C17, as claimed  For a round-trip time in (1000, 2000] ms the only      *)
(* change the adjustment makes is to raise poor to good: good and          *)
(* excellent are left as they are.                                         *)
(***************************************************************************)
C17_RttRaisesPoor ==
    (/\ netEv.op = "getNetworkInfo"
     /\ connection # Null
     /\ netEv.info.rtt > 1000
     /\ netEv.info.rtt <= 2000) =>
        LET base == BaseQuality(netEv.info.effectiveType, netEv.info.downlink) IN
        netEv.info.quality = IF base = "poor" THEN "good" ELSE base

(***************************************************************************)
(* SpecMonitor: createNetworkMonitor calls, the "change" events of         *)
(* navigator.connection and the cleanup functions the calls returned, in a *)
(* browser with or without navigator.connection.                           *)
(***************************************************************************)
MaxMonitors == 2
MaxChanges == 2
MaxUnsubscribes == 2
MonitorConnections ==
    {Connection("4g", 10000, 100), Connection("3g", 1000, 100), Connection("4g", 10000, 1025)}

InitMonitor ==
    /\ now = 0
    /\ connection \in MonitorConnections \cup {Null}
    /\ netListeners = {}
    /\ monitors = <<>>
    /\ netChanges = 0
    /\ netEv = NoEv

\* createNetworkMonitor(callback): without navigator.connection it returns a cleanup that does
\* nothing; with it, handleChange is registered and called once.
CreateNetworkMonitor ==
    /\ Len(monitors) < MaxMonitors
    /\ IF connection = Null
       THEN /\ monitors' = Append(monitors, [calls |-> 0, last |-> Null, changes |-> 0, unsubs |-> 0])
            /\ UNCHANGED netListeners
       ELSE /\ netListeners' = netListeners \cup {Len(monitors) + 1}
            /\ monitors' = Append(monitors, [calls |-> 1, last |-> getNetworkInfo(connection),
                                             changes |-> 0, unsubs |-> 0])
    /\ netEv' = [op |-> "createNetworkMonitor", id |-> Len(monitors) + 1]
    /\ UNCHANGED <<now, connection, netChanges, notNet>>

\* navigator.connection changes to conn and dispatches "change": every registered handleChange
\* calls its callback with getNetworkInfo()
ConnectionChange(conn) ==
    /\ connection # Null
    /\ netChanges < MaxChanges
    /\ netChanges' = netChanges + 1
    /\ connection' = conn
    /\ monitors' = [id \in DOMAIN monitors |->
                       [monitors[id] EXCEPT
                           !.calls = IF id \in netListeners THEN @ + 1 ELSE @,
                           !.last = IF id \in netListeners THEN getNetworkInfo(conn) ELSE @,
                           !.changes = IF monitors[id].unsubs = 0 THEN @ + 1 ELSE @]]
    /\ netEv' = [op |-> "change"]
    /\ UNCHANGED <<now, netListeners, notNet>>

\* the cleanup function monitor id returned is called: removeEventListener("change", handleChange)
Unsubscribe(id) ==
    /\ id \in DOMAIN monitors
    /\ monitors[id].unsubs < MaxUnsubscribes
    /\ netListeners' = netListeners \ {id}
    /\ monitors' = [monitors EXCEPT ![id].unsubs = @ + 1]
    /\ netEv' = [op |-> "unsubscribe", id |-> id, nth |-> monitors[id].unsubs + 1,
                 listeners |-> netListeners]
    /\ UNCHANGED <<now, connection, netChanges, notNet>>

NextMonitor ==
    \/ CreateNetworkMonitor
    \/ \E conn \in MonitorConnections : ConnectionChange(conn)
    \/ \E id \in DOMAIN monitors : Unsubscribe(id)

InitSpecMonitor ==
    InitMonitor /\ IdleCache /\ IdleOffline /\ IdleRetry /\ IdleBatch /\ IdleTracker /\ IdleCodec /\ IdlePrefLog

SpecMonitor == InitSpecMonitor /\ [][NextMonitor]_vars

(***************************************************************************)
(* C18  For every createNetworkMonitor call, with or without               *)
(* navigator.connection: the callback has run once when the call returns   *)
(* and once more per "change" event until the cleanup is called, never     *)
(* after it, each time with the classification of the connection as it     *)
(* then is; a second call of the cleanup changes nothing.  The code breaks *)
(* it without navigator.connection: the callback is never called.          *)
(***************************************************************************)
C18_MonitorCalls ==
    /\ \A id \in DOMAIN monitors :
           /\ monitors[id].calls = 1 + monitors[id].changes
           /\ monitors[id].unsubs = 0 => monitors[id].last = getNetworkInfo(connection)
    /\ (netEv.op = "unsubscribe" /\ netEv.nth > 1) => netListeners = netEv.listeners

(***************************************************************************)
(* SpecBusCodec: fetchData's decompressBusData(compressBusData(rawData))   *)
(* on the bus records the backend may hold: what the driver page writes    *)
(* (busId, lat, lon, speed, heading, routeName, status, updatedAt; its     *)
(* driverId is left out), a field missing or null where the backend holds  *)
(* none, and a status as the admin page may set it.                        *)
(***************************************************************************)
\* The property key: value of an object literal, none when the value is undefined.
Opt(key, value) == IF value = JsUndefined THEN <<>> ELSE <<Prop(key, value)>>

BusLats == {Num(129716004), Num(129716005)}      \* 12.9716004, 12.9716005
BusSpeeds == {JsUndefined, Null, Num(0), Num(42 * Scale), Num(425 * (Scale \div 10))}
BusHeadings == {JsUndefined, Num(0), Num(90 * Scale)}
BusStatuses == {JsUndefined, Str("online"), Str("maintenance")}
BusUpdatedAts == {JsUndefined, Num(5 * Scale)}
BusRouteNames == {JsUndefined, Str("R1")}

BusRecords ==
    {Obj(<<Prop("busId", Str("A"))>> \o Opt("lat", lat) \o Opt("lon", Num(775946000))
             \o Opt("speed", speed) \o Opt("heading", heading) \o Opt("routeName", routeName)
             \o Opt("status", status) \o Opt("updatedAt", updatedAt)) :
        lat \in BusLats, speed \in BusSpeeds, heading \in BusHeadings,
        routeName \in BusRouteNames, status \in BusStatuses, updatedAt \in BusUpdatedAts}

InitBusCodec ==
    /\ now = 100
    /\ codecIn \in BusRecords
    /\ codecEv = NoEv

\* fetchData: `compressed = compressBusData(rawData)`, `decompressed = decompressBusData(compressed)`
BusRoundTrip ==
    /\ codecEv' = [op |-> "bus", compressed |-> CompressBusData(codecIn, now),
                   out |-> DecompressBusData(CompressBusData(codecIn, now))]
    /\ UNCHANGED <<now, codecIn, notCodec>>

NextBusCodec == BusRoundTrip

InitSpecBusCodec ==
    InitBusCodec /\ IdleCache /\ IdleOffline /\ IdleRetry /\ IdleBatch /\ IdleTracker /\ IdleNet /\ IdlePrefLog

SpecBusCodec == InitSpecBusCodec /\ [][NextBusCodec]_vars

\* The bus record r with lat and lon rounded to 6 decimals, speed and heading to integers.
RoundedBus(r) ==
    Obj([i \in 1..Len(r.obj) |->
            LET p == r.obj[i] IN
            IF p.key \in {"lat", "lon"} /\ IsNum(p.value) THEN Prop(p.key, Num(RoundTo(p.value.num, 10)))
            ELSE IF p.key \in {"speed", "heading"} /\ IsNum(p.value)
            THEN Prop(p.key, Num(RoundTo(p.value.num, Scale)))
            ELSE p])

\* The properties of the object o that hold a value (neither null nor undefined).
Valued(o) == {o.obj[i] : i \in {j \in 1..Len(o.obj) : ~IsNullish(o.obj[j].value)}}

(***************************************************************************)
(* C19  For every bus record r (its strings have at most 50 characters),   *)
(* decompressBusData(compressBusData(r)) is r with lat and lon rounded to  *)
(* 6 decimals and speed and heading to integers: every field of r is in    *)
(* the result under its name with its (rounded) value, and no field absent *)
(* from r has a value in the result.  The code breaks it: a speed or       *)
(* heading of 0 comes back as null, fields other than the seven it copies  *)
(* are dropped, a status is cut to 10 characters, a missing status comes   *)
(* back as "unknown" and a missing updatedAt as the time of the call.      *)
(***************************************************************************)
C19_BusRoundTrip ==
    codecEv.op = "bus" => Valued(codecEv.out) = Valued(RoundedBus(codecIn))

(***************************************************************************)
(* SpecAdminCodec: decompressAdminData(compressAdminData(data)) on admin   *)
(* records: flat and nested, with arrays, values null, empty and 0,        *)
(* strings around 50 characters, and a field whose name is one of the      *)
(* aliases.                                                                *)
(***************************************************************************)
Cent == Scale \div 100

AdminCapacities == {JsUndefined, Num(0), Num(50 * Scale), Num(1234 * Cent), Num(12345 * (Cent \div 10))}
AdminModels ==
    {JsUndefined, Null, Str(""), Str("Volvo"),
     Str("abcdefghijabcdefghijabcdefghijabcdefghijabcdefghij"),
     Str("abcdefghijabcdefghijabcdefghijabcdefghijabcdefghijk")}
AdminLats == {JsUndefined, Num(1250 * Cent)}
AdminStops ==
    {JsUndefined,
     Arr(<<>>),
     Arr(<<Obj(<<Prop("name", Str("S1")), Prop("latitude", Num(1234 * Cent)),
                 Prop("longitude", Null)>>)>>),
     Arr(<<Obj(<<Prop("name", Str("S2")), Prop("order", Num(0))>>), Str("S3")>>)}

AdminRecords ==
    {Obj(<<Prop("busNumber", Str("KA01"))>> \o Opt("capacity", capacity) \o Opt("model", model)
             \o Opt("lat", lat) \o Opt("stops", stops)) :
        capacity \in AdminCapacities, model \in AdminModels, lat \in AdminLats, stops \in AdminStops}

InitAdminCodec ==
    /\ now = 0
    /\ codecIn \in AdminRecords
    /\ codecEv = NoEv

\* decompressAdminData(compressAdminData(data))
AdminRoundTrip ==
    /\ codecEv' = [op |-> "admin", compressed |-> compressAdminData(codecIn),
                   out |-> decompressAdminData(compressAdminData(codecIn))]
    /\ UNCHANGED <<now, codecIn, notCodec>>

NextAdminCodec == AdminRoundTrip

InitSpecAdminCodec ==
    InitAdminCodec /\ IdleCache /\ IdleOffline /\ IdleRetry /\ IdleBatch /\ IdleTracker /\ IdleNet /\ IdlePrefLog

SpecAdminCodec == InitSpecAdminCodec /\ [][NextAdminCodec]_vars

\* The value has strings of at most 50 characters and numbers of at most 2 decimals only.
RECURSIVE InClaim(_)
InClaim(v) ==
    IF IsStr(v) THEN Len(v.str) <= 50
    ELSE IF IsNum(v) THEN v.num % Cent = 0
    ELSE IF IsArr(v) THEN \A i \in 1..Len(v.arr) : InClaim(v.arr[i])
    ELSE IF IsObj(v) THEN \A i \in 1..Len(v.obj) : InClaim(v.obj[i].value)
    ELSE TRUE

\* The value with its objects as sets of properties, so that the order of the fields does not count.
RECURSIVE Unordered(_)
Unordered(v) ==
    IF IsArr(v) THEN Arr([i \in 1..Len(v.arr) |-> Unordered(v.arr[i])])
    ELSE IF IsObj(v) THEN Obj({Prop(v.obj[i].key, Unordered(v.obj[i].value)) : i \in 1..Len(v.obj)})
    ELSE v

\* The same without the fields that are null or undefined.
RECURSIVE WithoutNulls(_)
WithoutNulls(v) ==
    IF IsArr(v) THEN Arr([i \in 1..Len(v.arr) |-> WithoutNulls(v.arr[i])])
    ELSE IF IsObj(v)
    THEN Obj({Prop(v.obj[i].key, WithoutNulls(v.obj[i].value)) :
                 i \in {j \in 1..Len(v.obj) : ~IsNullish(v.obj[j].value)}})
    ELSE v

\* No object of the value has a field that is null or undefined.
RECURSIVE NoNullField(_)
NoNullField(v) ==
    IF IsArr(v) THEN \A i \in 1..Len(v.arr) : NoNullField(v.arr[i])
    ELSE IF IsObj(v)
    THEN \A i \in 1..Len(v.obj) : ~IsNullish(v.obj[i].value) /\ NoNullField(v.obj[i].value)
    ELSE TRUE

(***************************************************************************)
(* C20  For every record, nested or with arrays, whose strings have at     *)
(* most 50 characters and whose numbers have at most 2 decimals,           *)
(* decompressAdminData(compressAdminData(r)) is r without its null and     *)
(* undefined fields, each field under its own name with its own value,     *)
(* and the output of compressAdminData has no null field.  The code breaks *)
(* it: a field named like an alias comes back under the long name, and a   *)
(* value of 0 or "" comes back as null.                                    *)
(***************************************************************************)
C20_AdminRoundTrip ==
    (codecEv.op = "admin" /\ InClaim(codecIn)) =>
        /\ Unordered(codecEv.out) = WithoutNulls(codecIn)
        /\ NoNullField(codecEv.compressed)

(***************************************************************************)
(* SpecPrefetch: one SmartPrefetcher under recordAccess and                *)
(* prefetchLikelyResources calls, with a loadFn that settles later with a  *)
(* value (null where the backend holds nothing), or with an error.  The    *)
(* prefetcher starts with the access patterns and the cache that earlier   *)
(* use has left, some of its entries expired.                              *)
(***************************************************************************)
MaxPrefetches == 1
MaxAccesses == 7
MaxLoadFailures == 1
Resources == {"r6"}    \* the resource that is accessed again while the model runs

RECURSIVE Recorded(_)
\* accessPatterns after recordAccess of each resource of the sequence, in order
Recorded(accesses) ==
    IF accesses = <<>> THEN <<>>
    ELSE SmartPrefetcher_recordAccess(Recorded(SubSeq(accesses, 1, Len(accesses) - 1)),
                                      accesses[Len(accesses)])

\* The access patterns a run starts with: six resources seen once, or three with counts
\* 1, 2 and 3.
StartPatterns ==
    {Recorded(<<"r1", "r2", "r3", "r4", "r5", "r6">>),
     Recorded(<<"r1", "r2", "r2", "r3", "r3", "r3">>)}

\* The resources the backend holds nothing under.
Missing == {"r1", "r6"}

\* What loadFn(resource) resolves with: `snapshot.val()`, null where nothing is stored.
Loaded(resource) == IF resource \in Missing THEN Null ELSE [resource |-> resource]

\* The time at which the model starts, and the times of the earlier loads.
StartNow == DefaultTtl + 100000
Lately == DefaultTtl
LongAgo == Lately - DefaultTtl

\* The prefetch cache a run starts with: empty, or as earlier prefetches have left it, with
\* r3 loaded long ago (expired by now) and r1 (nothing stored) and r2 loaded lately.
StartCaches ==
    {<<>>,
     DataCache_set(
         DataCache_set(
             DataCache_set(<<>>, PrefetchCacheSize, "r3", Loaded("r3"), DefaultTtl, LongAgo),
             PrefetchCacheSize, "r1", Loaded("r1"), DefaultTtl, Lately),
         PrefetchCacheSize, "r2", Loaded("r2"), DefaultTtl, Lately)}

InitPrefetch ==
    /\ now = StartNow
    /\ prefetchCache \in StartCaches
    /\ accessPatterns \in StartPatterns
    /\ prefetches = EmptyBag
    /\ prefLog = <<>>
    /\ prefEv = NoEv

Step(key, what, held) == [key |-> key, what |-> what, held |-> held]

\* The steps the loop takes from the candidates `from` to its next await, which leaves
\* `keys` to do and the cache pc: the candidates found cached, then the one whose load is awaited.
StepsTo(from, keys, pc) ==
    [i \in 1..(Len(from) - Len(keys)) |-> Step(from[i], "cached", TRUE)]
        \o (IF keys = <<>> THEN <<>> ELSE <<Step(Head(keys), "load", MapHas(pc, Head(keys)))>>)

\* The number of loads that failed so far.
LoadFailures ==
    Cardinality({<<id, i>> \in (DOMAIN prefLog) \X (1..TopCount) :
                     i <= Len(prefLog[id].steps) /\ prefLog[id].steps[i].what = "failed"})

\* The steps with the awaited load settled as `what`.
Settle(steps, what) == [steps EXCEPT ![Len(steps)].what = what]

\* The number of recordAccess calls the access patterns stand for.
RECURSIVE Accesses(_)
Accesses(ap) == IF ap = <<>> THEN 0 ELSE Head(ap).count + Accesses(Tail(ap))

\* a caller's recordAccess(resource)
RecordAccess(resource) ==
    /\ Accesses(accessPatterns) < MaxAccesses
    /\ accessPatterns' = SmartPrefetcher_recordAccess(accessPatterns, resource)
    /\ prefEv' = [op |-> "recordAccess", resource |-> resource]
    /\ UNCHANGED <<now, prefetchCache, prefetches, prefLog, notPrefetch>>

\* prefetchLikelyResources(loadFn, networkQuality) up to its first await, or to its end
PrefetchLikelyResources(networkQuality) ==
    /\ Len(prefLog) < MaxPrefetches
    /\ IF SmartPrefetcher_skips(networkQuality)
       THEN /\ prefLog' = Append(prefLog, [quality |-> networkQuality, counts |-> accessPatterns,
                                           top |-> <<>>, steps |-> <<>>, done |-> TRUE])
            /\ UNCHANGED <<prefetchCache, prefetches>>
       ELSE LET top == SmartPrefetcher_sortedResources(accessPatterns)
                sc == SmartPrefetcher_scan(prefetchCache, top, now)
            IN /\ prefetchCache' = sc.cache
               /\ prefetches' = IF sc.keys = <<>> THEN prefetches
                                ELSE BagAdd(prefetches, [keys |-> sc.keys, id |-> Len(prefLog) + 1])
               /\ prefLog' = Append(prefLog, [quality |-> networkQuality, counts |-> accessPatterns,
                                              top |-> top, steps |-> StepsTo(top, sc.keys, sc.cache),
                                              done |-> sc.keys = <<>>])
    /\ prefEv' = [op |-> "prefetch"]
    /\ UNCHANGED <<now, accessPatterns, notPrefetch>>

\* loadFn(resource) of a suspended call resolves: the value is cached, the loop goes on
LoadResolves(run) ==
    /\ BagIn(run, prefetches)
    /\ LET val == Loaded(Head(run.keys))
           sc == SmartPrefetcher_scan(
                     DataCache_set(prefetchCache, PrefetchCacheSize, Head(run.keys), val,
                                   DefaultTtl, now),
                     Tail(run.keys), now)
       IN /\ prefetchCache' = sc.cache
          /\ prefetches' = IF sc.keys = <<>> THEN BagRemove(prefetches, run)
                           ELSE BagAdd(BagRemove(prefetches, run), [keys |-> sc.keys, id |-> run.id])
          /\ prefLog' = [prefLog EXCEPT ![run.id].steps = Settle(@, "stored")
                                                            \o StepsTo(Tail(run.keys), sc.keys, sc.cache),
                                        ![run.id].done = sc.keys = <<>>]
    /\ prefEv' = [op |-> "resolved", id |-> run.id, key |-> Head(run.keys),
                  val |-> Loaded(Head(run.keys)), at |-> now]
    /\ UNCHANGED <<now, accessPatterns, notPrefetch>>

\* loadFn(resource) of a suspended call rejects: the catch block logs, the loop goes on
LoadRejects(run) ==
    /\ BagIn(run, prefetches)
    /\ LoadFailures < MaxLoadFailures
    /\ LET rest == SmartPrefetcher_afterCatch(run.keys)
           sc == SmartPrefetcher_scan(prefetchCache, rest, now)
       IN /\ prefetchCache' = sc.cache
          /\ prefetches' = IF sc.keys = <<>> THEN BagRemove(prefetches, run)
                           ELSE BagAdd(BagRemove(prefetches, run), [keys |-> sc.keys, id |-> run.id])
          /\ prefLog' = [prefLog EXCEPT ![run.id].steps = Settle(@, "failed")
                                                            \o StepsTo(rest, sc.keys, sc.cache),
                                        ![run.id].done = sc.keys = <<>>]
    /\ prefEv' = [op |-> "rejected", id |-> run.id, key |-> Head(run.keys), at |-> now,
                  before |-> prefetchCache, counts |-> accessPatterns]
    /\ UNCHANGED <<now, accessPatterns, notPrefetch>>

NextPrefetch ==
    \/ \E resource \in Resources : RecordAccess(resource)
    \/ \E networkQuality \in Qualities : PrefetchLikelyResources(networkQuality)
    \/ \E run \in BagToSet(prefetches) : LoadResolves(run)
    \/ \E run \in BagToSet(prefetches) : LoadRejects(run)

InitSpecPrefetch ==
    InitPrefetch /\ IdleCache /\ IdleOffline /\ IdleRetry /\ IdleBatch /\ IdleUserTracker
        /\ IdleNet /\ IdleCodec

SpecPrefetch == InitSpecPrefetch /\ [][NextPrefetch]_vars

\* The steps of a call at which loadFn was invoked.
Loads(r) == SelectSeq(r.steps, LAMBDA st : st.what # "cached")

\* The access count of a resource in the access patterns ap.
CountOf(ap, resource) == MapGet(ap, resource).count

(***************************************************************************)
(* C21  A prefetchLikelyResources call under quality poor invokes the      *)
(* loader zero times.  Any other call invokes it at most once per key and  *)
(* at most 5 times, only for keys among the 5 highest access counts that   *)
(* have no unexpired entry in the prefetch cache when the loader is        *)
(* invoked, in descending order of access count; and a result that is      *)
(* loaded is stored under its key with the cache's default ttl.            *)
(* The code breaks it: a key whose unexpired entry holds null is loaded    *)
(* again.                                                                  *)
(***************************************************************************)
C21_PrefetchLoads ==
    /\ \A id \in DOMAIN prefLog :
           LET r == prefLog[id]
               loads == Loads(r)
           IN /\ r.quality = "poor" => loads = <<>>
              /\ Len(loads) <= TopCount
              /\ \A i, j \in 1..Len(loads) : i < j =>
                     /\ loads[i].key # loads[j].key
                     /\ CountOf(r.counts, loads[i].key) >= CountOf(r.counts, loads[j].key)
              /\ \A i \in 1..Len(loads) :
                     /\ MapHas(r.counts, loads[i].key)
                     /\ Cardinality({e \in MapEntries(r.counts) :
                                         e.count > CountOf(r.counts, loads[i].key)}) < TopCount
                     /\ ~loads[i].held
    /\ prefEv.op = "resolved" =>
           /\ MapHas(prefetchCache, prefEv.key)
           /\ MapGet(prefetchCache, prefEv.key)
                  = CacheEntry(prefEv.key, prefEv.val, prefEv.at, DefaultTtl)

\* The candidates of a call, and those the loop has dealt with or is waiting for.
StepKeys(r) == [i \in 1..Len(r.steps) |-> r.steps[i].key]

(***************************************************************************)
(* C22  When loadFn fails for a candidate, the call goes on: it returns    *)
(* without error once every candidate of its top 5 was found cached or     *)
(* was passed to loadFn, in order, and until then it waits for the load of *)
(* a later candidate.  The failure leaves the failed key without an entry, *)
(* the entries that are cached and not expired as they were, and the       *)
(* access counts as they were.                                             *)
(***************************************************************************)
C22_FailureIsSkipped ==
    /\ \A id \in DOMAIN prefLog :
           LET r == prefLog[id] IN
           /\ Len(r.steps) <= Len(r.top)
           /\ StepKeys(r) = SubSeq(r.top, 1, Len(r.steps))
           /\ r.done => /\ Len(r.steps) = Len(r.top)
                        /\ \A run \in BagToSet(prefetches) : run.id # id
           /\ ~r.done => /\ \E run \in BagToSet(prefetches) :
                                /\ run.id = id
                                /\ CopiesIn(run, prefetches) = 1
                                /\ Head(run.keys) = r.steps[Len(r.steps)].key
                                /\ r.steps[Len(r.steps)].what = "load"
    /\ prefEv.op = "rejected" =>
           /\ accessPatterns = prefEv.counts
           /\ MapHas(prefetchCache, prefEv.key) = MapHas(prefEv.before, prefEv.key)
           /\ \A e \in MapEntries(prefEv.before) :
                  ~DataCache_expired(e, prefEv.at) =>
                      MapHas(prefetchCache, e.key) /\ MapGet(prefetchCache, e.key) = e

\* The load of the first candidate failed, the loads of later ones were made and stored, and
\* the call has returned.
C22_Witness ==
    \E id \in DOMAIN prefLog :
        LET r == prefLog[id] IN
        /\ r.done
        /\ Len(r.steps) = TopCount
        /\ r.steps[1].what = "failed"
        /\ ~MapHas(prefetchCache, r.steps[1].key)
        /\ \E i \in 2..TopCount : r.steps[i].what = "stored" /\ MapHas(prefetchCache, r.steps[i].key)

\* A load fails while other entries are cached: they stay.
C22_WitnessCached ==
    /\ prefEv.op = "rejected"
    /\ \E e \in MapEntries(prefEv.before) : ~DataCache_expired(e, prefEv.at)
    /\ \E e \in MapEntries(prefEv.before) : DataCache_expired(e, prefEv.at)

(***************************************************************************)
(* SpecTracker: one UserTracker from its first render on, with the global  *)
(* DataCache(200), OfflineManager(100) and SmartPrefetcher; the user       *)
(* starts and stops tracking, poll timers fire, reads of the backend       *)
(* resolve or reject in any order, the network quality changes, the        *)
(* browser goes offline and online, the clock advances, the component is   *)
(* unmounted.  A handler runs with the render and the effects that follow  *)
(* it.  A poll timer may fire at any moment after it is armed, which       *)
(* covers every period.  The global BatchUpdateManager gets the records    *)
(* read under batchUpdates.  handleBusSelect (the route-search list) and   *)
(* the statistics the tracker only writes are left out.                    *)
(***************************************************************************)
MaxEvents == 2
TrkTickMs == 30000
Buses == {"A", "B"}
SearchText == "text"    \* what the user typed, where it is a PNR or a route and not a bus id

\* setState of a component that is unmounted is dropped.
SetState(old, new) == IF mounted THEN new ELSE old

InitTracker ==
    /\ now = 0
    /\ cache = <<>>
    /\ maxSize = GlobalCacheSize
    /\ setLog = <<>>
    /\ distinctRun = TRUE
    /\ cacheEv = NoEv
    /\ isOnline \in BOOLEAN
    /\ offlineQueue = <<>>
    /\ maxQueueSize = GlobalQueueSize
    /\ replays = {}
    /\ nextId = 0
    /\ replayed = [id \in 1..(MaxEvents + 1) |-> 0]
    /\ offEv = NoEv
    /\ prefetchCache = <<>>
    /\ accessPatterns = <<>>
    /\ prefetches = EmptyBag
    /\ quality \in Qualities
    /\ busId = NoBus
    /\ bus = Null
    /\ subscribed = FALSE
    /\ connectionStatus = "connected"
    /\ lastDataUpdate = 0
    /\ updateIntervalRef = Null
    /\ timers = EmptyBag
    /\ fetches = EmptyBag
    /\ starts = EmptyBag
    /\ mounted = TRUE
    /\ version = 1
    /\ session = 0
    /\ shownIn = 0
    /\ trkEv = NoEv

\* fetchBusDataOptimized(b) of the render with quality q, up to `await retryWithBackoff(...)`:
\* the two cache lookups, and on a miss the status and the first call of fetchData.
BeginFetch(b, q, src, ses) ==
    LET hit == GlobalCacheHit(cache, b, now)
        phit == ~hit /\ PrefetchHit(prefetchCache, b, now)
    IN
    /\ cache' = DataCache_afterGet(cache, CacheKey(b), now)
    /\ prefetchCache' = IF hit THEN prefetchCache
                        ELSE DataCache_afterGet(prefetchCache, CacheKey(b), now)
    /\ IF hit \/ phit
       THEN UNCHANGED <<connectionStatus, fetches>>
       ELSE /\ connectionStatus' = SetState(connectionStatus, "connecting")
            /\ fetches' = BagAdd(fetches, [busId |-> b, q |-> q,
                                            frame |-> Retry_start(MaxRetries(q)), src |-> src,
                                            since |-> version, session |-> ses])

\* subscribe() from `setBusId(resolvedBusId)` on, in a render with quality q and the timers T:
\* startOptimizedTracking() overwrites updateIntervalRef.current without clearing it; then the
\* render, and the rescheduling effect if subscribed or busId differ from the last render.
StartTracking(b, q, T, ses) ==
    LET T1 == SetInterval(T, Timer(b, q))
        eff == IF mounted /\ (~subscribed \/ busId # b)
               THEN Reschedule(T1, Timer(b, q), TRUE, b, quality)
               ELSE [timers |-> T1, ref |-> Timer(b, q)]
    IN
    /\ BeginFetch(b, q, "start", ses)
    /\ busId' = SetState(busId, b)
    /\ subscribed' = SetState(subscribed, TRUE)
    /\ timers' = eff.timers
    /\ updateIntervalRef' = eff.ref
    /\ trkEv' = [op |-> "start", busId |-> b, q |-> q,
                 miss |-> ~GlobalCacheHit(cache, b, now) /\ ~PrefetchHit(prefetchCache, b, now),
                 inflight |-> BagCardinality(fetches),
                 answer |-> FetchAnswer(cache, prefetchCache, b, now), at |-> now]

\* The user presses Track: subscribe() up to its first await, or to its end where it has none.
Subscribe(mode, query) ==
    /\ mounted
    /\ budget > 0
    /\ budget' = budget - 1
    /\ session' = session + 1
    /\ shownIn' = shownIn
    /\ LET T0 == ClearRef(timers, updateIntervalRef) IN
       IF mode = "bus" /\ query # NoBus
       THEN /\ bus' = Null
            /\ StartTracking(query, quality, T0, session + 1)
            /\ UNCHANGED starts
       ELSE /\ subscribed' = FALSE
            /\ bus' = Null
            /\ busId' = NoBus
            /\ timers' = T0
            /\ updateIntervalRef' = Null
            /\ starts' = IF mode = "pnr" THEN BagAdd(starts, [q |-> quality]) ELSE starts
            /\ trkEv' = NoEv
            /\ UNCHANGED <<cache, prefetchCache, connectionStatus, fetches>>
    /\ UNCHANGED <<now, isOnline, offlineQueue, replays, nextId, replayed, offEv, accessPatterns,
                   prefetches, quality, lastDataUpdate, mounted, version, notTracker, batchVars>>

\* The pnrIndex read of a suspended subscribe() settles: resolved is the busId it yields,
\* NoBus when there is no entry or the read failed.
PnrSettles(s, resolved) ==
    /\ BagIn(s, starts)
    /\ starts' = BagRemove(starts, s)
    /\ IF resolved = NoBus
       THEN /\ busId' = SetState(busId, NoBus)
            /\ bus' = SetState(bus, Null)
            /\ trkEv' = NoEv
            /\ UNCHANGED <<cache, prefetchCache, connectionStatus, fetches, subscribed, timers,
                           updateIntervalRef>>
       ELSE /\ StartTracking(resolved, s.q, timers, session)
            /\ UNCHANGED bus
    /\ UNCHANGED <<now, isOnline, offlineQueue, replays, nextId, replayed, offEv, accessPatterns,
                   prefetches, quality, lastDataUpdate, mounted, version, session, shownIn, budget, notTracker, batchVars>>

\* An armed poll timer fires: `fetchBusDataOptimized(busId)` of the render that armed it.
TimerFires_do(x) ==
    /\ BagIn(x, timers)
    /\ BeginFetch(x.busId, x.q, "timer", session)
    /\ trkEv' = [op |-> "poll", busId |-> x.busId, q |-> x.q,
                 answer |-> FetchAnswer(cache, prefetchCache, x.busId, now), at |-> now]
    /\ UNCHANGED <<now, isOnline, offlineQueue, replays, nextId, replayed, offEv, accessPatterns,
                   prefetches, quality, busId, bus, subscribed, lastDataUpdate, updateIntervalRef,
                   timers, starts, mounted, version, session, shownIn, notTracker, batchVars>>

TimerFires(x) ==
    /\ budget > 0
    /\ budget' = budget - 1
    /\ TimerFires_do(x)

\* A suspended fetch ends with a read that resolves (exists: the backend holds a record)
\* after `fails` reads that failed: fetchData caches and returns, retryWithBackoff returns,
\* fetchBusDataOptimized applies the data.  The failed reads and the backoff delays of a fetch
\* touch nothing but its frame, so they are taken together with the read that ends it.
\* The snapshot that arrives is of a version v the backend held while the fetch was under
\* way: responses may arrive late, and in another order than the reads were served.
ReadResolves(f, fails, exists, v) ==
    /\ BagIn(f, fetches)
    /\ Retry_afterRejects(f.frame, fails).pc = "call"
    /\ Retry_afterRejects(f.frame, fails).attempt = fails
    /\ v \in f.since..version
    /\ LET rawData == IF exists THEN BusRecord(f.busId, v) ELSE Null
           frame == Retry_onResolve(Retry_afterRejects(f.frame, fails),
                                    FetchData_returned(rawData, f.q, now))
           data == frame.settled
       IN
       /\ cache' = DataCache_set(cache, maxSize, CacheKey(f.busId),
                                 FetchData_cached(rawData, f.q, now), DefaultTtl, now)
       /\ fetches' = BagRemove(fetches, f)
       /\ IF data # Null
          THEN /\ bus' = SetState(bus, [busId |-> f.busId, updatedAt |-> data.updatedAt])
               /\ lastDataUpdate' = SetState(lastDataUpdate, now)
               /\ connectionStatus' = SetState(connectionStatus, "connected")
               /\ accessPatterns' = SmartPrefetcher_recordAccess(accessPatterns, CacheKey(f.busId))
               /\ shownIn' = IF mounted THEN f.session ELSE shownIn
          ELSE UNCHANGED <<bus, lastDataUpdate, connectionStatus, accessPatterns, shownIn>>
       /\ IF data # Null /\ BatchUpdates(f.q)
          THEN BatchManager_addUpdate(f.busId, data)
          ELSE UNCHANGED batchVars
       /\ trkEv' = [op |-> "settled", busId |-> f.busId, q |-> f.q, src |-> f.src,
                    reads |-> frame.attempt + 1,
                    outcome |-> IF data # Null THEN "data" ELSE "null",
                    applied |-> mounted /\ data # Null, inflight |-> BagCardinality(fetches),
                    data |-> data, shown |-> bus, session |-> f.session, shownIn |-> shownIn]
    /\ UNCHANGED <<now, isOnline, offlineQueue, replays, nextId, replayed, offEv, prefetchCache,
                   prefetches, quality, busId, subscribed, updateIntervalRef, timers, starts,
                   mounted, version, session, budget, notTracker>>

\* Every read of a suspended fetch fails: retryWithBackoff throws the last error and
\* fetchBusDataOptimized runs its catch block.
ReadsExhausted_do(f) ==
    /\ BagIn(f, fetches)
    /\ LET frame == Retry_afterRejects(f.frame, f.frame.maxRetries + 1) IN
       /\ frame.pc = "rejected"
       /\ fetches' = BagRemove(fetches, f)
       /\ connectionStatus' = SetState(connectionStatus, "disconnected")
       /\ offlineQueue' = OfflineManager_queueUpdate(offlineQueue, isOnline, maxQueueSize,
              QueuedItem(f.busId, [action |-> "fetch", timestamp |-> now], now, nextId + 1))
       /\ nextId' = IF isOnline THEN nextId ELSE nextId + 1
       /\ offEv' = [op |-> "queueUpdate", online |-> isOnline, queue |-> offlineQueue,
                    item |-> QueuedItem(f.busId, [action |-> "fetch", timestamp |-> now], now,
                                        nextId + 1)]
       /\ trkEv' = [op |-> "settled", busId |-> f.busId, q |-> f.q, src |-> f.src,
                    reads |-> frame.attempt + 1, outcome |-> "error",
                    applied |-> mounted, online |-> isOnline, queueBefore |-> offlineQueue,
                    session |-> f.session, ref |-> updateIntervalRef, timers |-> timers]
    /\ UNCHANGED <<now, cache, isOnline, replays, replayed, prefVars, quality, busId, bus,
                   subscribed, lastDataUpdate, updateIntervalRef, timers, starts, mounted,
                   version, session, shownIn, notTracker, batchVars>>

ReadsExhausted(f) == ReadsExhausted_do(f) /\ UNCHANGED budget

\* navigator.connection "change": the monitor's callback sets networkInfo and starts a prefetch
\* when the quality becomes excellent; the render makes new settings and a new
\* fetchBusDataOptimized, so the rescheduling effect runs.
NetworkChange(q) ==
    /\ mounted
    /\ budget > 0
    /\ budget' = budget - 1
    /\ quality' = q
    /\ LET eff == Reschedule(timers, updateIntervalRef, subscribed, busId, q) IN
       /\ timers' = eff.timers
       /\ updateIntervalRef' = eff.ref
    /\ IF q = "excellent" /\ quality # "excellent"
       THEN LET sc == SmartPrefetcher_scan(prefetchCache,
                                           SmartPrefetcher_sortedResources(accessPatterns), now)
            IN /\ prefetchCache' = sc.cache
               /\ prefetches' = IF sc.keys = <<>> THEN prefetches
                                ELSE BagAdd(prefetches, [keys |-> sc.keys])
       ELSE UNCHANGED <<prefetchCache, prefetches>>
    /\ trkEv' = [op |-> "network"]
    /\ UNCHANGED <<now, cache, isOnline, offlineQueue, replays, nextId, replayed, offEv, accessPatterns,
                   busId, bus, subscribed, connectionStatus, lastDataUpdate, fetches, starts,
                   mounted, version, session, shownIn, notTracker, batchVars>>

\* loadFn(resource) of a suspended prefetch resolves with val: it is cached, the loop goes on.
PrefetchLoadResolves(run, val) ==
    /\ BagIn(run, prefetches)
    /\ LET sc == SmartPrefetcher_scan(
                     DataCache_set(prefetchCache, PrefetchCacheSize, Head(run.keys), val,
                                   DefaultTtl, now),
                     Tail(run.keys), now)
       IN /\ prefetchCache' = sc.cache
          /\ prefetches' = IF sc.keys = <<>> THEN BagRemove(prefetches, run)
                           ELSE BagAdd(BagRemove(prefetches, run), [keys |-> sc.keys])
    /\ trkEv' = NoEv
    /\ UNCHANGED <<now, cache, offVars, accessPatterns, quality, busId, bus, subscribed,
                   connectionStatus, lastDataUpdate, updateIntervalRef, timers, fetches, starts,
                   mounted, version, session, shownIn, budget, retryVars, libVars, batchVars, maxSize, distinctRun, setLog,
                   cacheEv>>

\* loadFn(resource) of a suspended prefetch rejects: the loop goes on.
PrefetchLoadRejects(run) ==
    /\ BagIn(run, prefetches)
    /\ LET sc == SmartPrefetcher_scan(prefetchCache, SmartPrefetcher_afterCatch(run.keys), now)
       IN /\ prefetchCache' = sc.cache
          /\ prefetches' = IF sc.keys = <<>> THEN BagRemove(prefetches, run)
                           ELSE BagAdd(BagRemove(prefetches, run), [keys |-> sc.keys])
    /\ trkEv' = NoEv
    /\ UNCHANGED <<now, cache, offVars, accessPatterns, quality, busId, bus, subscribed,
                   connectionStatus, lastDataUpdate, updateIntervalRef, timers, fetches, starts,
                   mounted, version, session, shownIn, budget, retryVars, libVars, batchVars, maxSize, distinctRun, setLog,
                   cacheEv>>

\* The component is unmounted: the cleanup clears the timer that updateIntervalRef holds.
Unmount ==
    /\ budget > 0
    /\ budget' = budget - 1
    /\ mounted
    /\ mounted' = FALSE
    /\ timers' = ClearRef(timers, updateIntervalRef)
    /\ updateIntervalRef' = Null
    /\ trkEv' = NoEv
    /\ UNCHANGED <<now, cache, offVars, prefVars, quality, busId, bus, subscribed,
                   connectionStatus, lastDataUpdate, fetches, starts, version, session, shownIn,
                   retryVars, libVars, batchVars, maxSize, distinctRun, setLog, cacheEv>>

TrkOffline ==
    /\ budget > 0
    /\ budget' = budget - 1
    /\ OfflineEvent_do
    /\ trkEv' = NoEv
    /\ UNCHANGED <<now, cacheVars, retryVars, libVars, batchVars, prefVars, quality, busId, bus,
                   subscribed, connectionStatus, lastDataUpdate, updateIntervalRef, timers,
                   fetches, starts, mounted, version, session, shownIn>>

TrkOnline ==
    /\ budget > 0
    /\ budget' = budget - 1
    /\ OnlineEvent_do
    /\ trkEv' = NoEv
    /\ UNCHANGED <<now, cacheVars, retryVars, libVars, batchVars, prefVars, quality, busId, bus,
                   subscribed, connectionStatus, lastDataUpdate, updateIntervalRef, timers,
                   fetches, starts, mounted, version, session, shownIn>>

TrkReplayResolve(run) ==
    /\ ReplayResolve_do(run)
    /\ trkEv' = NoEv
    /\ UNCHANGED <<now, cacheVars, retryVars, libVars, batchVars, prefVars, quality, busId, bus,
                   subscribed, connectionStatus, lastDataUpdate, updateIntervalRef, timers,
                   fetches, starts, mounted, version, session, shownIn, budget>>

TrkReplayReject(run) ==
    /\ ReplayReject_do(run)
    /\ trkEv' = NoEv
    /\ UNCHANGED <<now, cacheVars, retryVars, libVars, batchVars, prefVars, quality, busId, bus,
                   subscribed, connectionStatus, lastDataUpdate, updateIntervalRef, timers,
                   fetches, starts, mounted, version, session, shownIn, budget>>

\* The backend's bus records change.
BackendUpdate ==
    /\ budget > 0
    /\ budget' = budget - 1
    /\ version' = version + 1
    /\ trkEv' = NoEv
    /\ UNCHANGED <<now, cacheVars, offVars, retryVars, libVars, batchVars, prefVars, quality, busId, bus,
                   subscribed, connectionStatus, lastDataUpdate, updateIntervalRef, timers,
                   fetches, starts, mounted, session, shownIn>>

TrkTick ==
    /\ budget > 0
    /\ budget' = budget - 1
    /\ now' = now + TrkTickMs
    /\ trkEv' = NoEv
    /\ UNCHANGED <<cacheVars, offVars, retryVars, libVars, batchVars, prefVars, quality, busId, bus,
                   subscribed, connectionStatus, lastDataUpdate, updateIntervalRef, timers,
                   fetches, starts, mounted, version, session, shownIn>>

TrkBatchTick ==
    /\ BatchTick_do
    /\ trkEv' = NoEv
    /\ UNCHANGED <<cacheVars, offVars, retryVars, libVars, prefVars, quality, busId, bus,
                   subscribed, connectionStatus, lastDataUpdate, updateIntervalRef, timers,
                   fetches, starts, mounted, version, session, shownIn, budget>>

NextTracker ==
    \/ \E query \in Buses \cup {NoBus} : Subscribe("bus", query)
    \/ \E mode \in {"pnr", "route"} : Subscribe(mode, SearchText)
    \/ \E s \in BagToSet(starts), resolved \in Buses \cup {NoBus} : PnrSettles(s, resolved)
    \/ \E x \in BagToSet(timers) : TimerFires(x)
    \/ \E f \in BagToSet(fetches) :
           \E fails \in 0..f.frame.maxRetries, exists \in BOOLEAN, v \in 1..version :
               ReadResolves(f, fails, exists, v)
    \/ \E f \in BagToSet(fetches) : ReadsExhausted(f)
    \/ \E q \in Qualities : NetworkChange(q)
    \/ \E run \in BagToSet(prefetches) : \E val \in {Null, [resource |-> Head(run.keys)]} :
           PrefetchLoadResolves(run, val)
    \/ \E run \in BagToSet(prefetches) : PrefetchLoadRejects(run)
    \/ Unmount
    \/ TrkOffline
    \/ TrkOnline
    \/ \E run \in replays : TrkReplayResolve(run)
    \/ \E run \in replays : TrkReplayReject(run)
    \/ BackendUpdate
    \/ TrkTick
    \/ \E handle \in bTimers : BatchTimerFires(handle)
    \/ \E updates \in sends : SendResolves(updates)
    \/ \E updates \in sends : SendRejects(updates)
    \/ TrkBatchTick

InitSpecTracker == InitTracker /\ budget = MaxEvents /\ IdleRetry /\ IdleBatch /\ IdleNet /\ IdleCodec /\ IdlePrefLog

SpecTracker == InitSpecTracker /\ [][NextTracker]_vars

\* The same tracker with one event more, for the scenarios that take three.
InitSpecTrackerLong == InitTracker /\ budget = MaxEvents + 1 /\ IdleRetry /\ IdleBatch /\ IdleNet /\ IdleCodec /\ IdlePrefLog

SpecTrackerLong == InitSpecTrackerLong /\ [][NextTracker]_vars

\* The tracker one TrkTickMs after this use: Track was pressed for bus A under quality good,
\* the initial fetch read the record, the network became excellent and the prefetch that
\* started loaded bus_A; the network has stayed excellent, or has become good again.  The
\* timer armed by the rescheduling effect is live.
WarmBus == "A"
WarmQualities == {"excellent", "good"}
InitTrackerWarm ==
    /\ now = TrkTickMs
    /\ cache = DataCache_set(<<>>, GlobalCacheSize, CacheKey(WarmBus),
                             FetchData_cached(BusRecord(WarmBus, 1), "good", 0), DefaultTtl, 0)
    /\ maxSize = GlobalCacheSize
    /\ setLog = <<>>
    /\ distinctRun = TRUE
    /\ cacheEv = NoEv
    /\ isOnline \in BOOLEAN
    /\ offlineQueue = <<>>
    /\ maxQueueSize = GlobalQueueSize
    /\ replays = {}
    /\ nextId = 0
    /\ replayed = [id \in 1..(MaxEvents + 1) |-> 0]
    /\ offEv = NoEv
    /\ prefetchCache = DataCache_set(<<>>, PrefetchCacheSize, CacheKey(WarmBus),
                                     [resource |-> CacheKey(WarmBus)], DefaultTtl, 0)
    /\ accessPatterns = SmartPrefetcher_recordAccess(<<>>, CacheKey(WarmBus))
    /\ prefetches = EmptyBag
    /\ quality \in WarmQualities
    /\ busId = WarmBus
    /\ bus = [busId |-> WarmBus, updatedAt |-> 1]
    /\ subscribed = TRUE
    /\ connectionStatus = "connected"
    /\ lastDataUpdate = 0
    /\ updateIntervalRef = [busId |-> WarmBus, q |-> quality]
    /\ timers = SetToBag({updateIntervalRef})
    /\ fetches = EmptyBag
    /\ starts = EmptyBag
    /\ mounted = TRUE
    /\ version = 1
    /\ session = 1
    /\ shownIn = 1
    /\ trkEv = NoEv

InitSpecTrackerWarm == InitTrackerWarm /\ budget = MaxEvents /\ IdleRetry /\ IdleBatch /\ IdleNet /\ IdleCodec /\ IdlePrefLog

SpecTrackerWarm == InitSpecTrackerWarm /\ [][NextTracker]_vars

(***************************************************************************)
(* SpecPoll: the polling of a tracking session whose reads may fail.       *)
(* Track is pressed for one bus; the interval timer fires again and again; *)
(* a fetch ends with the record it read or, for at most as many fetches as *)
(* the budget allows besides the presses of Track, with every read         *)
(* failed.  The clock advances in steps of TrkTickMs.  The fetches under   *)
(* way and the reads that succeeded are capped, which keeps the access     *)
(* counts finite.                                                          *)
(***************************************************************************)
MaxPollTicks == 2
MaxPollReads == 2
PollEnd == MaxPollTicks * TrkTickMs

\* The interval callback of an armed timer.
PollFires(x) ==
    /\ Accesses(accessPatterns) + BagCardinality(fetches) < MaxPollReads
    /\ TimerFires_do(x)
    /\ UNCHANGED budget

\* Every read of a fetch fails.
PollFails(f) ==
    /\ budget > 0
    /\ budget' = budget - 1
    /\ ReadsExhausted_do(f)

\* A read of a fetch yields the record the backend holds, after `fails` reads that failed:
\* the first read, or the last one that retryWithBackoff makes.
PollResolves(f, fails) == ReadResolves(f, fails, TRUE, version)

PollTick ==
    /\ now < PollEnd
    /\ now' = now + TrkTickMs
    /\ trkEv' = NoEv
    /\ UNCHANGED <<cacheVars, offVars, retryVars, libVars, batchVars, prefVars, quality, busId, bus,
                   subscribed, connectionStatus, lastDataUpdate, updateIntervalRef, timers,
                   fetches, starts, mounted, version, session, shownIn, budget>>

PollTimer == \E x \in BagToSet(timers) : PollFires(x)
PollAnswer == \E f \in BagToSet(fetches) : \E fails \in {0, f.frame.maxRetries} : PollResolves(f, fails)

NextPoll ==
    \/ Subscribe("bus", WarmBus)
    \/ PollTimer
    \/ PollAnswer
    \/ \E f \in BagToSet(fetches) : PollFails(f)
    \/ PollTick

InitSpecPoll == InitTracker /\ budget = MaxEvents /\ IdleRetry /\ IdleBatch /\ IdleNet /\ IdleCodec /\ IdlePrefLog

\* setInterval keeps calling its callback while the timer is armed, the clock advances, and
\* a read that does not fail is answered.
SpecPoll ==
    /\ InitSpecPoll
    /\ [][NextPoll]_vars
    /\ WF_vars(PollTimer)
    /\ WF_vars(PollAnswer)
    /\ WF_vars(PollTick)

\* The last entry of the offline queue is the marker a failed fetch of bus b leaves.
MarkerLast(b) ==
    /\ offlineQueue # <<>>
    /\ offlineQueue[Len(offlineQueue)].key = b
    /\ offlineQueue[Len(offlineQueue)].data.action = "fetch"

\* The last handler was the catch block of a fetch whose retries were exhausted.
Exhausted == trkEv.op = "settled" /\ trkEv.outcome = "error"

(***************************************************************************)
(* C6  as the code has it: when a fetch has used up its retries (one read  *)
(* and maxRetries more, all failed), the status of a mounted tracker is    *)
(* "disconnected"; the marker for the bus is appended to the offline queue *)
(* if the OfflineManager is offline, and the queue is left as it was if    *)
(* it is online.                                                           *)
(***************************************************************************)
C6_ExhaustionWhenOffline ==
    Exhausted =>
        /\ trkEv.reads = MaxRetries(trkEv.q) + 1
        /\ mounted => connectionStatus = "disconnected"
        /\ IF trkEv.online THEN offlineQueue = trkEv.queueBefore
           ELSE /\ MarkerLast(trkEv.busId)
                /\ Len(offlineQueue) = Len(trkEv.queueBefore) + 1

C6_Witness ==
    /\ Exhausted
    /\ mounted
    /\ ~trkEv.online
    /\ connectionStatus = "disconnected"
    /\ MarkerLast(trkEv.busId)

(***************************************************************************)
(* C6  as the specification has it: in every state in which a fetch has    *)
(* used up its retries, the status is "disconnected" and the offline queue *)
(* holds a marker for the bus.  It fails when the browser is online, where *)
(* queueUpdate returns without queueing.                                   *)
(***************************************************************************)
C6_MarkerInEveryState ==
    (Exhausted /\ mounted) =>
        /\ connectionStatus = "disconnected"
        /\ \E i \in 1..Len(offlineQueue) :
               offlineQueue[i].key = trkEv.busId /\ offlineQueue[i].data.action = "fetch"

(***************************************************************************)
(* C7  A fetch result (data or failure) is applied to the state of the     *)
(* tracker only while the bus it was fetched for is the one tracked: not   *)
(* after unmount, and not after the user has started to track something    *)
(* else.  The code breaks the second half: fetchBusDataOptimized applies   *)
(* whatever its read yields, with no look at what is tracked by then.      *)
(***************************************************************************)
C7_NoStaleResultApplied == (trkEv.op = "settled" /\ trkEv.applied) => trkEv.busId = busId

(***************************************************************************)
(* C8  After the network quality changed while a bus is tracked (and the   *)
(* status is not "connecting"), exactly one poll timer is armed and its    *)
(* period is the updateInterval of the new quality.  The code breaks it    *)
(* where subscribe() left more than one timer armed.                       *)
(***************************************************************************)
C8_OneTimerAtNewPeriod ==
    (/\ trkEv.op = "network"
     /\ subscribed
     /\ busId # NoBus
     /\ connectionStatus \in {"connected", "disconnected"}) =>
        /\ BagCardinality(timers) = 1
        /\ \A x \in BagToSet(timers) : UpdateInterval(x.q) = UpdateInterval(quality)

(***************************************************************************)
(* C9  Tracking that starts in a render with quality excellent, with the   *)
(* quality still excellent and neither cache holding the bus, issues one   *)
(* backend read and leaves the poll timer of updateIntervalRef armed with  *)
(* period 5000 ms; when that first read yields the record, the fetch ends  *)
(* with no other read and the record is in the global cache.               *)
(***************************************************************************)
C9_ExcellentStart ==
    /\ (/\ trkEv.op = "start"
        /\ trkEv.q = "excellent"
        /\ quality = "excellent"
        /\ trkEv.miss) =>
           /\ BagCardinality(fetches) = trkEv.inflight + 1
           /\ \E f \in BagToSet(fetches) :
                  /\ f.busId = trkEv.busId
                  /\ f.src = "start"
                  /\ f.frame.pc = "call"
                  /\ f.frame.attempt = 0
           /\ updateIntervalRef # Null
           /\ BagIn(updateIntervalRef, timers)
           /\ updateIntervalRef.busId = trkEv.busId
           /\ UpdateInterval(updateIntervalRef.q) = 5000
    /\ (/\ trkEv.op = "settled"
        /\ trkEv.src = "start"
        /\ trkEv.q = "excellent"
        /\ trkEv.outcome = "data"
        /\ trkEv.reads = 1) =>
           /\ BagCardinality(fetches) = trkEv.inflight - 1
           /\ DataCache_get(cache, CacheKey(trkEv.busId), now)
                  = [busId |-> trkEv.busId, updatedAt |-> trkEv.data.updatedAt, timestamp |-> now]

C9_Witness ==
    /\ trkEv.op = "settled"
    /\ trkEv.src = "start"
    /\ trkEv.q = "excellent"
    /\ trkEv.outcome = "data"
    /\ trkEv.reads = 1
    /\ quality = "excellent"
    /\ MapHas(cache, CacheKey(trkEv.busId))
    /\ updateIntervalRef # Null
    /\ UpdateInterval(updateIntervalRef.q) = 5000
    /\ bus # Null

(***************************************************************************)
(* C24  Within the session that is under way, the result of one of its     *)
(* fetches replaces bus data that another of its fetches put on display    *)
(* only if its updatedAt is not smaller than the updatedAt displayed.      *)
(* The code breaks it: fetchBusDataOptimized sets whatever its read        *)
(* yields, so of two fetches under way at once the one whose older         *)
(* snapshot arrives last replaces the newer data.                          *)
(***************************************************************************)
C24_NoOlderResultApplied ==
    (/\ trkEv.op = "settled"
     /\ trkEv.outcome = "data"
     /\ trkEv.applied
     /\ trkEv.session = session
     /\ trkEv.shownIn = session
     /\ trkEv.shown # Null
     /\ trkEv.shown.busId = trkEv.busId) =>
        trkEv.data.updatedAt >= trkEv.shown.updatedAt

(***************************************************************************)
(* C27  At most one poll timer is armed at any time, the one               *)
(* updateIntervalRef holds, and none is armed once the component is        *)
(* unmounted.  The code breaks it: a subscribe() that resumes after its    *)
(* pnrIndex read arms a timer without clearing the one armed meanwhile,    *)
(* also after the unmount.                                                 *)
(***************************************************************************)
C27_OneTimer ==
    /\ BagCardinality(timers) <= 1
    /\ timers # EmptyBag => updateIntervalRef # Null /\ BagIn(updateIntervalRef, timers)
    /\ ~mounted => timers = EmptyBag

(***************************************************************************)
(* C28  While the tracker is mounted, the status is "connecting" only      *)
(* while a fetch is under way: the fetch that set it sets "connected" or   *)
(* "disconnected" when its read has settled, whatever the backend          *)
(* answered.  The code breaks it: a read that yields no record leaves the  *)
(* status as it is.                                                        *)
(***************************************************************************)
C28_ConnectingIsTransient ==
    (mounted /\ connectionStatus = "connecting") => fetches # EmptyBag

(***************************************************************************)
(* C29  When tracking of a bus has started and its initial fetch has       *)
(* returned a record, from the global cache, the prefetch cache or the     *)
(* backend, the bus displayed is that record for that bus.  The code       *)
(* breaks it: a fetch answered from a cache returns without setBus, and    *)
(* the display stays empty.                                                *)
(***************************************************************************)
C29_CacheAnswerIsShown ==
    /\ (/\ trkEv.op = "start"
        /\ mounted
        /\ trkEv.answer # Null
        /\ "updatedAt" \in DOMAIN trkEv.answer.entry.data) =>
           bus = [busId |-> trkEv.busId, updatedAt |-> trkEv.answer.entry.data.updatedAt]
    /\ (/\ trkEv.op = "settled"
        /\ trkEv.src = "start"
        /\ trkEv.outcome = "data"
        /\ mounted) =>
           bus = [busId |-> trkEv.busId, updatedAt |-> trkEv.data.updatedAt]

(***************************************************************************)
(* C25  A fetch that is answered without a backend read, from the global   *)
(* cache or from the prefetch cache, returns an entry that was stored at   *)
(* most 30 seconds earlier.  The code breaks it: the answer from the       *)
(* prefetch cache is tested for nothing but its ttl of 300 seconds.        *)
(***************************************************************************)
C25_AnswersAreFresh ==
    (trkEv.op \in {"start", "poll"} /\ trkEv.answer # Null) =>
        trkEv.at - trkEv.answer.entry.timestamp <= FreshMs

\* A fetch of the session under way has just exhausted its retries.
RetriesExhausted ==
    /\ trkEv.op = "settled"
    /\ trkEv.outcome = "error"
    /\ trkEv.session = session

\* No read fails from now on, and the run has room for one more poll that reads.
ReadsSucceedFromNow ==
    /\ budget = 0
    /\ now < PollEnd
    /\ Accesses(accessPatterns) < MaxPollReads

\* The status is connected and the bus displayed is the record a read has just yielded.
Reconnected ==
    /\ connectionStatus = "connected"
    /\ trkEv.op = "settled"
    /\ trkEv.outcome = "data"
    /\ bus = [busId |-> trkEv.busId, updatedAt |-> trkEv.data.updatedAt]
    /\ lastDataUpdate = now

(***************************************************************************)
(* C23  When a fetch of the session under way has exhausted its retries,   *)
(* the status is disconnected and the poll timer is armed as it was, with  *)
(* the same period; and if no read fails from then on, the status          *)
(* eventually is connected again, with the record a read has just yielded  *)
(* on display.                                                             *)
(***************************************************************************)
C23_PollingRecovers ==
    /\ [](RetriesExhausted => /\ connectionStatus = "disconnected"
                              /\ timers = trkEv.timers
                              /\ updateIntervalRef = trkEv.ref
                              /\ BagIn(updateIntervalRef, timers))
    /\ ((RetriesExhausted /\ ReadsSucceedFromNow) ~> Reconnected)

C23_Witness ==
    /\ Reconnected
    /\ offEv.op = "queueUpdate"
    /\ budget = 0
    /\ shownIn = session
    /\ timers # EmptyBag

====
